---- MODULE Spec2Model ----
(***************************************************************************)
(* kompo-vfs: an in-process virtual file system.  kompo_storage::Fs is the *)
(* path-trie store with its descriptor registry (fd_map); kompo_fs::glue   *)
(* is the syscall dispatcher that routes each intercepted call either to   *)
(* the store or to the next dynamic-library symbol (kompo_wrap::*_HANDLE). *)
(*                                                                         *)
(* C strings are sequences of one-character strings, so that byte-prefix   *)
(* tests and std::path parsing are computed rather than assumed.  A path   *)
(* vector (Vec<&OsStr>) is a sequence of such strings.                     *)
(***************************************************************************)
EXTENDS Integers, Sequences, FiniteSets, TLC

(***************************************************************************)
(* Bounds of the model.                                                    *)
(***************************************************************************)
\* descriptors of the process are 0..MaxFd; 0, 1, 2 are the standard streams
MaxFd == 4
\* largest buffer length handed to read
MaxBuf == 2
\* directory streams (heap FsDir objects) alive at one time
MaxDirs == 1
\* threads of the host process
MaxThreads == 3
\* context blocks one thread has entered and not left
MaxDepth == 2

\* Option<T>: None, Some(x)
None == <<>>
Some(x) == <<x>>
IsSome(o) == o # <<>>
Unwrap(o) == o[1]

StdFds == {0, 1, 2}
Fds == 0..MaxFd

(***************************************************************************)
(* Byte strings.                                                           *)
(***************************************************************************)
\* the byte value of a character (ASCII), the order OsStr compares by
ByteOf(c) ==
    CASE c = "." -> 46 [] c = "/" -> 47 [] c = "a" -> 97 [] c = "d" -> 100
      [] c = "f" -> 102 [] c = "o" -> 111 [] c = "p" -> 112 [] c = "q" -> 113
      [] c = "s" -> 115 [] c = "t" -> 116 [] c = "x" -> 120 [] c = "z" -> 122

\* <[u8]>::starts_with
StartsWith(s, pre) ==
    /\ Len(pre) <= Len(s)
    /\ SubSeq(s, 1, Len(pre)) = pre

\* lexicographic byte order on strings (Ord for OsStr / [u8])
RECURSIVE StrLess(_, _)
StrLess(a, b) ==
    IF b = <<>> THEN FALSE
    ELSE IF a = <<>> THEN TRUE
    ELSE IF a[1] # b[1] THEN ByteOf(a[1]) < ByteOf(b[1])
    ELSE StrLess(Tail(a), Tail(b))

\* lexicographic order on path vectors, label by label (the trie's order)
RECURSIVE VecLess(_, _)
VecLess(a, b) ==
    IF b = <<>> THEN FALSE
    ELSE IF a = <<>> THEN TRUE
    ELSE IF a[1] # b[1] THEN StrLess(a[1], b[1])
    ELSE VecLess(Tail(a), Tail(b))

(***************************************************************************)
(* std::path: Path::is_absolute, Path::components / Path::iter,            *)
(* Path::parent, PathBuf::push, PathBuf::pop (Unix).                       *)
(***************************************************************************)
has_root(s) == Len(s) > 0 /\ s[1] = "/"

\* the pieces between separators, empty pieces included
RECURSIVE SplitSep(_, _)
SplitSep(s, cur) ==
    IF s = <<>> THEN <<cur>>
    ELSE IF s[1] = "/" THEN <<cur>> \o SplitSep(Tail(s), <<>>)
    ELSE SplitSep(Tail(s), Append(cur, s[1]))

RECURSIVE DropNone(_, _)
DropNone(pieces, first) ==
    IF pieces = <<>> THEN <<>>
    ELSE LET p == pieces[1] IN
         IF p = <<>> \/ (p = <<".">> /\ ~first)
         THEN DropNone(Tail(pieces), FALSE)
         ELSE <<p>> \o DropNone(Tail(pieces), FALSE)

\* Path::iter(): "/" for the root, then every component; empty components
\* and "." are skipped, except a leading "." of a relative path
components(s) ==
    IF s = <<>> THEN <<>>
    ELSE IF has_root(s) THEN << <<"/">> >> \o DropNone(Tail(SplitSep(s, <<>>)), FALSE)
    ELSE DropNone(SplitSep(s, <<>>), TRUE)

\* Components::len_before_body
len_before_body(s) ==
    IF has_root(s) THEN 1
    ELSE IF s = <<".">> \/ StartsWith(s, <<".", "/">>) THEN 1
    ELSE 0

LastSep(s, lbb) ==
    LET I == {i \in (lbb + 1)..Len(s) : s[i] = "/"} IN
    IF I = {} THEN 0 ELSE CHOOSE i \in I : \A j \in I : j <= i

\* Components::parse_next_component_back: the last piece and what is before
BackComp(s, lbb) ==
    LET i == LastSep(s, lbb) IN
    IF i = 0 THEN SubSeq(s, lbb + 1, Len(s)) ELSE SubSeq(s, i + 1, Len(s))

BackRest(s, lbb) ==
    LET i == LastSep(s, lbb) IN
    IF i = 0 THEN SubSeq(s, 1, lbb) ELSE SubSeq(s, 1, i - 1)

\* Components::trim_right: trailing separators and "." are no components
RECURSIVE TrimRight(_, _)
TrimRight(s, lbb) ==
    IF Len(s) > lbb /\ BackComp(s, lbb) \in {<<>>, <<".">>}
    THEN TrimRight(BackRest(s, lbb), lbb)
    ELSE s

\* Path::parent(): None for the root and for the empty path
parent(s) ==
    LET lbb == len_before_body(s)
        t   == TrimRight(s, lbb)
    IN  IF Len(t) > lbb THEN Some(TrimRight(BackRest(t, lbb), lbb))
        ELSE IF has_root(s) \/ s = <<>> THEN None
        ELSE Some(<<>>)

\* PathBuf::push of a Normal component
push(buf, comp) ==
    IF buf # <<>> /\ buf[Len(buf)] # "/" THEN buf \o <<"/">> \o comp
    ELSE buf \o comp

\* a pop that never truncates
pop_nothing(buf) == buf

\* PathBuf::pop(): truncate to the parent, nothing when there is none
pop(buf) == IF IsSome(parent(buf)) THEN Unwrap(parent(buf)) ELSE buf

\* util::canonicalize_path: fold the components of join_path over base
RECURSIVE FoldComponents(_, _)
FoldComponents(base, comps) ==
    IF comps = <<>> THEN base
    ELSE LET c == comps[1] IN
         IF c = <<".", ".">> THEN FoldComponents(pop(base), Tail(comps))
         ELSE IF c = <<"/">> \/ c = <<".">> THEN FoldComponents(base, Tail(comps))
         ELSE FoldComponents(push(base, c), Tail(comps))

canonicalize_path(base, join_path) == FoldComponents(base, components(join_path))

(***************************************************************************)
(* The bundle: PATHS, FILES, FILES_SIZES and WD, linked into the binary.   *)
(*   /t/a      3 bytes          /t/d/s/p  1 byte                           *)
(*   /t/d/s/q  1 byte           /t/d/x    empty                            *)
(***************************************************************************)
NUL == "NUL"

PATHS ==
    <<"/", "t", "/", "a", NUL,
      "/", "t", "/", "d", "/", "s", "/", "p", NUL,
      "/", "t", "/", "d", "/", "s", "/", "q", NUL,
      "/", "t", "/", "d", "/", "x", NUL>>

FILES == <<11, 12, 13, 21, 31>>

FILES_SIZES == <<0, 3, 4, 5, 5>>

\* the virtual-root prefix
WD == <<"/", "t">>

\* slice::split_inclusive(|a| *a == b'\0'), the terminator dropped again by
\* CStr::from_bytes_with_nul
RECURSIVE SplitNul(_, _)
SplitNul(s, cur) ==
    IF s = <<>> THEN (IF cur = <<>> THEN <<>> ELSE <<cur>>)
    ELSE IF s[1] = NUL THEN <<cur>> \o SplitNul(Tail(s), <<>>)
    ELSE SplitNul(Tail(s), Append(cur, s[1]))

splited_path_array == SplitNul(PATHS, <<>>)

\* initialize_fs: the i-th path maps to FILES[FILES_SIZES[i] .. FILES_SIZES[i+1]]
\* (FILES_SIZES is 0-based in the source, 1-based here)
BundleEntry(i) ==
    [path |-> components(splited_path_array[i]),
     file |-> SubSeq(FILES, FILES_SIZES[i] + 1, FILES_SIZES[i + 1])]

\* the keys of the built trie
TrieKeys == {BundleEntry(i).path : i \in 1..Len(splited_path_array)}

\* the value pushed for a key
TrieValue(key) ==
    LET i == CHOOSE j \in 1..Len(splited_path_array) : BundleEntry(j).path = key
    IN  BundleEntry(i).file

\* Trie::exact_match
exact_match(path) == IF path \in TrieKeys THEN Some(TrieValue(path)) ELSE None

IsPrefixVec(pre, v) == Len(pre) <= Len(v) /\ SubSeq(v, 1, Len(pre)) = pre

\* the keys from the greatest to the least
RECURSIVE SortVecsDescending(_)
SortVecsDescending(S) ==
    IF S = {} THEN <<>>
    ELSE LET m == CHOOSE x \in S : \A y \in S \ {x} : VecLess(y, x)
         IN  <<m>> \o SortVecsDescending(S \ {m})

RECURSIVE SortVecs(_)
SortVecs(S) ==
    IF S = {} THEN <<>>
    ELSE LET m == CHOOSE x \in S : \A y \in S \ {x} : VecLess(x, y)
         IN  <<m>> \o SortVecs(S \ {m})

\* Trie::predictive_search: every key below the prefix, in the trie's order
predictive_search(path) == SortVecs({k \in TrieKeys : IsPrefixVec(path, k)})

(***************************************************************************)
(* kompo_storage::Fs, the store part.                                      *)
(***************************************************************************)
\* Fs::get_inode_from_path: FxHasher over the path vector.  The 64-bit hash
\* is kept symbolic: equal vectors hash equal, distinct vectors of one bundle
\* are taken to hash differently.
get_inode_from_path(path) == [fxhash |-> path]

\* the id the filter_map closure of get_file_type_from_path looks up in
\* uniq_file for a descendant `path`
uniq_id(path, depth) == get_inode_from_path(path)

\* the filter_map over predictive_search, uniq_file threaded through
RECURSIVE FilterEntries(_, _, _)
FilterEntries(found, depth, uniq_file) ==
    IF found = <<>> THEN <<>>
    ELSE LET path == found[1]
             id   == uniq_id(path, depth)
         IN  IF Len(path) >= depth
             THEN IF id \in uniq_file
                  THEN FilterEntries(Tail(found), depth, uniq_file)
                  ELSE <<SubSeq(path, 1, depth)>>
                       \o FilterEntries(Tail(found), depth, uniq_file \cup {id})
             ELSE FilterEntries(Tail(found), depth, uniq_file)

\* Fs::get_file_type_from_path
get_file_type_from_path(search_path) ==
    IF IsSome(exact_match(search_path))
    THEN Some([kind |-> "File", file |-> Unwrap(exact_match(search_path)),
               offset |-> 0, inode |-> get_inode_from_path(search_path)])
    ELSE LET entries == FilterEntries(predictive_search(search_path),
                                      Len(search_path) + 1, {})
         IN  IF entries # <<>>
             THEN Some([kind |-> "Directory",
                        inode |-> get_inode_from_path(search_path),
                        entries |-> entries])
             ELSE None

\* Fs::is_dir_exists_from_path
is_dir_exists_from_path(path) ==
    LET t == get_file_type_from_path(path)
    IN  IsSome(t) /\ Unwrap(t).kind = "Directory"

S_IFMT == 61440
S_IFREG == 32768
S_IFDIR == 16384
S_IRUSR == 256
S_IXUSR == 64
S_IRGRP == 32
S_IXGRP == 8
S_IROTH == 4
S_IXOTH == 1
BLKSIZE == 4096

\* a division that rounds down
div_floor(a, b) == a \div b

div_ceil(a, b) == (a + b - 1) \div b

\* Fs::DEV
DEV == [makedev |-> <<2222, 0>>]

\* get_stat_from_file_type with the directory's st_size = 1 in the file arm too
get_stat_with_size_one(file_type) ==
    [st_dev |-> DEV, st_ino |-> file_type.inode,
     st_mode |-> IF file_type.kind = "File"
                 THEN S_IFREG + S_IRUSR + S_IRGRP + S_IROTH
                 ELSE S_IFDIR + S_IXUSR + S_IRUSR + S_IXGRP + S_IRGRP + S_IXOTH + S_IROTH,
     st_nlink |-> 1, st_uid |-> "getuid", st_gid |-> "getgid", st_rdev |-> 0,
     st_size |-> 1, st_blksize |-> BLKSIZE, st_blocks |-> 0,
     st_atime |-> 0, st_mtime |-> 0, st_ctime |-> 0]

\* Fs::get_stat_from_file_type
get_stat_from_file_type(file_type) ==
    IF file_type.kind = "File"
    THEN [st_dev |-> DEV, st_ino |-> file_type.inode,
          st_mode |-> S_IFREG + S_IRUSR + S_IRGRP + S_IROTH,
          st_nlink |-> 1, st_uid |-> "getuid", st_gid |-> "getgid", st_rdev |-> 0,
          st_size |-> Len(file_type.file), st_blksize |-> BLKSIZE,
          st_blocks |-> div_ceil(div_ceil(Len(file_type.file), 512), 8) * 8,
          st_atime |-> 0, st_mtime |-> 0, st_ctime |-> 0]
    ELSE [st_dev |-> DEV, st_ino |-> file_type.inode,
          st_mode |-> S_IFDIR + S_IXUSR + S_IRUSR + S_IXGRP + S_IRGRP + S_IXOTH + S_IROTH,
          st_nlink |-> 1, st_uid |-> "getuid", st_gid |-> "getgid", st_rdev |-> 0,
          st_size |-> 1, st_blksize |-> BLKSIZE,
          st_blocks |-> 0,
          st_atime |-> 0, st_mtime |-> 0, st_ctime |-> 0]

\* Fs::stat (and Fs::lstat, which calls it): the filled buffer, or None
Fs_stat(path) ==
    LET t == get_file_type_from_path(path)
    IN  IF IsSome(t) THEN Some(get_stat_from_file_type(Unwrap(t))) ELSE None

(***************************************************************************)
(* The state of the process.                                               *)
(***************************************************************************)
VARIABLES
    trie_init,    \* TRIE (OnceLock): has the store been built
    fd_map,       \* Fs::fd_map, the descriptor registry: fd -> FileType
    os_fds,       \* the descriptors the kernel holds open among 0..MaxFd
    dirs,         \* the heap FsDir objects handed out as DIR*: ptr -> {fd, offset},
                  \* with the history of the entries readdir returned (seen) and
                  \* whether it returned the end sentinel (ended)
    working_dir,  \* WORKING_DIR: Option<OsString>
    cache,        \* FILE_TYPE_CACHE: path vector -> stat buffer
    aborted,      \* a panic (todo!, unreachable!, unwrap on None) ended the process
    delivered,    \* history, per registered fd: the path it was opened on, the
                  \* bytes reads handed out since, and whether a read returned 0
    last,         \* the last intercepted call: arguments, result, errno, real calls
    last_chdir,   \* history: the argument of the last chdir and the working
                  \* directory it found, None after kompo_fs_set_entrypoint_dir
    thread_context, \* THREAD_CONTEXT: OnceLock of a map pthread_t -> bool
    ctx_depth,    \* per thread: the context blocks it is inside of
    init_pc,      \* per thread: where it is inside TRIE.get_or_init
    handle,       \* per thread: the Fs instance its last Arc::clone refers to
    trie_instance, \* the Fs instance TRIE holds once set
    loader_runs,  \* how many times initialize_trie has run
    stat_seen,    \* history: per path vector, the buffer the first successful
                  \* stat or lstat of a path naming it returned, and which
                  \* of the two it was
    calls         \* per thread: the read or close it is inside of, between two
                  \* acquisitions of the lock of TRIE

vars == <<trie_init, fd_map, os_fds, dirs, working_dir, cache, aborted, delivered, last,
          last_chdir, thread_context, ctx_depth, init_pc, handle, trie_instance,
          loader_runs, stat_seen, calls>>

\* the part of the state the intercepted calls of one thread work on
call_vars == <<trie_init, fd_map, os_fds, dirs, working_dir, cache, delivered, last_chdir,
               stat_seen>>
\* the per-thread context flags
ctx_vars == <<thread_context, ctx_depth>>
\* the progress of the threads through the one-time initialization of TRIE
once_vars == <<init_pc, handle, trie_instance, loader_runs>>

\* the state as one value, threaded through the dispatcher functions
St == [trie_init |-> trie_init, fd_map |-> fd_map, os_fds |-> os_fds, dirs |-> dirs,
       working_dir |-> working_dir, cache |-> cache, aborted |-> aborted,
       delivered |-> delivered]

\* what a call gives back: the new state, the return value, the errno it set
\* (NoErr: errno not written), the real calls and registry releases it made in
\* order, and the data written to the caller's buffer
NoErr == "errno_unchanged"
Out(st, ret, err, trace, data) ==
    [st |-> st, ret |-> ret, err |-> err, trace |-> trace, data |-> data]

\* a panic: the process is gone, the call returns nothing
Panic(st) == Out([st EXCEPT !.aborted = TRUE], "panic", NoErr, <<>>, <<>>)

\* pointers returned to the caller
NullPtr == [ptr |-> "null"]
DirPtr(d) == [ptr |-> "FsDir", d |-> d]
StrPtr(str) == [ptr |-> "CString", str |-> str]
RealPtr(rr) == [ptr |-> "real", v |-> rr]

\* the record of one call of a next-symbol function (kompo_wrap::*_HANDLE)
RealCall(fn, args, ret) == [ev |-> "real", fn |-> fn, args |-> args, ret |-> ret]

\* a function without the key k
Without(f, k) == [x \in (DOMAIN f) \ {k} |-> f[x]]
\* a function with k mapped to v
With(f, k, v) == [x \in (DOMAIN f) \cup {k} |-> IF x = k THEN v ELSE f[x]]

Min(a, b) == IF a < b THEN a ELSE b

\* a dup that answers with the lowest descriptor above the standard streams,
\* open or not
dup0_stale(os) ==
    LET free == (0..(MaxFd + 1)) \ StdFds
    IN  CHOOSE fd \in free : \A g \in free : fd <= g

\* libc::dup(0): the lowest descriptor that is not open; MaxFd + 1 stands for
\* a descriptor beyond the modelled table
dup0(os) ==
    LET free == (0..(MaxFd + 1)) \ os
    IN  CHOOSE fd \in free : \A g \in free : fd <= g

(***************************************************************************)
(* kompo_storage::Fs, the descriptor registry.                             *)
(* Each returns [st, res] with res an Option.                              *)
(***************************************************************************)
Res(st, res) == [st |-> st, res |-> res]

\* the history of a descriptor just opened on path
Fresh(path) == [path |-> path, bytes |-> <<>>, eof |-> FALSE]

\* FsDir { fd, offset: 0 }
FsDir(fd) == [fd |-> fd, offset |-> 0, seen |-> <<>>, ended |-> FALSE]

\* the registry entry Fs::open inserts for a classified path
OpenEntry(file_type) == file_type

\* Fs::open (Fs::open_at has the same body)
Fs_open(st, path) ==
    LET t == get_file_type_from_path(path) IN
    IF IsSome(t)
    THEN LET fd == dup0(st.os_fds) IN
         Res([st EXCEPT !.fd_map = With(@, fd, OpenEntry(Unwrap(t))),
                        !.os_fds = @ \cup {fd},
                        !.delivered = With(@, fd, Fresh(path))],
             Some(fd))
    ELSE Res(st, None)

\* read_size with the offset forgotten
read_size_ignoring_offset(file, offset, buf_len) == Min(Len(file), buf_len)

\* a read that hands out one byte less than it could
read_size_short(file, offset, buf_len) ==
    IF Min(Len(file) - offset, buf_len) > 1
    THEN Min(Len(file) - offset, buf_len) - 1
    ELSE Min(Len(file) - offset, buf_len)

\* the number of bytes Fs::read copies
read_size(file, offset, buf_len) == Min(Len(file) - offset, buf_len)

\* the copy taken from the start of the file, whatever the offset
copy_from_start(file, offset, n) == SubSeq(file, 1, n)

\* &file[offset .. offset + n], the bytes Fs::read copies
copy_from(file, offset, n) == SubSeq(file, offset + 1, offset + n)

\* Fs::read: res is Some(n) or None, panic stands for todo!(); bytes is what
\* was copied into buf[..n]
Fs_read(st, fd, buf_len) ==
    IF fd \in DOMAIN st.fd_map
    THEN LET ft == st.fd_map[fd] IN
         IF ft.kind = "File"
         THEN IF ft.offset = Len(ft.file)
              THEN [st |-> [st EXCEPT !.delivered[fd].eof = TRUE],
                    res |-> Some(0), bytes |-> <<>>, panic |-> FALSE]
              ELSE LET n == read_size(ft.file, ft.offset, buf_len)
                       bytes == copy_from(ft.file, ft.offset, n)
                   IN  IF n > buf_len \/ ft.offset + n > Len(ft.file)
                       THEN \* a slice index out of range panics
                            [st |-> st, res |-> None, bytes |-> <<>>, panic |-> TRUE]
                       ELSE [st |-> [st EXCEPT !.fd_map[fd].offset = @ + n,
                                               !.delivered[fd].bytes = @ \o bytes],
                             res |-> Some(n), bytes |-> bytes, panic |-> FALSE]
         ELSE [st |-> st, res |-> None, bytes |-> <<>>, panic |-> TRUE]
    ELSE [st |-> st, res |-> None, bytes |-> <<>>, panic |-> FALSE]

\* Fs::close
\* a close that empties the registry
Fs_close_all(st, fd) ==
    Res([st EXCEPT !.fd_map = <<>>, !.delivered = <<>>], 0)

Fs_close(st, fd) ==
    IF fd \in DOMAIN st.fd_map
    THEN Res([st EXCEPT !.fd_map = Without(@, fd), !.delivered = Without(@, fd)], 0)
    ELSE Res(st, 0)

\* an fstat that reports what is left to read as the size
Fs_fstat_remaining(st, fd) ==
    IF fd \in DOMAIN st.fd_map
    THEN LET t == st.fd_map[fd]
             b == get_stat_from_file_type(t)
         IN  Some(IF t.kind = "File"
                  THEN [b EXCEPT !.st_size = Len(t.file) - t.offset]
                  ELSE b)
    ELSE None

\* Fs::fstat
Fs_fstat(st, fd) ==
    IF fd \in DOMAIN st.fd_map
    THEN Some(get_stat_from_file_type(st.fd_map[fd]))
    ELSE None

\* Fs::is_fd_exists
is_fd_exists(st, fd) == fd \in DOMAIN st.fd_map

\* the lowest free FsDir slot (Box::new)
NewDir(st) ==
    LET free == (1..(MaxDirs + 1)) \ DOMAIN st.dirs
    IN  CHOOSE d \in free : \A e \in free : d <= e

\* Fs::opendir, with the Box::into_raw of the caller: res is Some(ptr)
\* an opendir that registers whatever the path classifies as
Fs_opendir_any_kind(st, path) ==
    LET t == get_file_type_from_path(path) IN
    IF IsSome(t)
    THEN LET fd == dup0(st.os_fds)
             d  == NewDir(st)
         IN  Res([st EXCEPT !.fd_map = With(@, fd, Unwrap(t)),
                            !.os_fds = @ \cup {fd},
                            !.delivered = With(@, fd, Fresh(path)),
                            !.dirs = With(@, d, FsDir(fd))],
                 Some(d))
    ELSE Res(st, None)

Fs_opendir(st, path) ==
    LET t == get_file_type_from_path(path) IN
    IF IsSome(t) /\ Unwrap(t).kind = "Directory"
    THEN LET fd == dup0(st.os_fds)
             d  == NewDir(st)
         IN  Res([st EXCEPT !.fd_map = With(@, fd, Unwrap(t)),
                            !.os_fds = @ \cup {fd},
                            !.delivered = With(@, fd, Fresh(path)),
                            !.dirs = With(@, d, FsDir(fd))],
                 Some(d))
    ELSE Res(st, None)

\* Fs::fdopendir, with the Box::into_raw of the caller
\* an fdopendir that takes descriptors of files too
Fs_fdopendir_any_kind(st, fd) ==
    IF fd \in DOMAIN st.fd_map
    THEN LET d == NewDir(st) IN
         Res([st EXCEPT !.dirs = With(@, d, FsDir(fd))], Some(d))
    ELSE Res(st, None)

Fs_fdopendir(st, fd) ==
    IF fd \in DOMAIN st.fd_map /\ st.fd_map[fd].kind = "Directory"
    THEN LET d == NewDir(st) IN
         Res([st EXCEPT !.dirs = With(@, d, FsDir(fd))], Some(d))
    ELSE Res(st, None)

DT_DIR == 4
DT_REG == 8

\* Fs::create_dirent: d_name is the last segment
create_dirent(inode, file_type, full_path) ==
    [null |-> FALSE, d_ino |-> inode, d_type |-> file_type,
     d_name |-> full_path[Len(full_path)]]

\* std::ptr::null_mut() as a dirent pointer
NullDirent == [null |-> TRUE]

\* Fs::readdir: res is Some(dirent), Some(null) at the end, or None; panic
\* stands for unreachable!()
Fs_readdir(st, d) ==
    LET dir == st.dirs[d] IN
    IF dir.fd \in DOMAIN st.fd_map /\ st.fd_map[dir.fd].kind = "Directory"
    THEN LET entries == st.fd_map[dir.fd].entries IN
         IF dir.offset >= Len(entries)
         THEN [st |-> [st EXCEPT !.dirs[d].ended = TRUE],
               res |-> Some(NullDirent), panic |-> FALSE]
         ELSE LET full_path == entries[dir.offset + 1]
                  t == get_file_type_from_path(full_path)
                  dirent == create_dirent(get_inode_from_path(full_path),
                                          IF Unwrap(t).kind = "File"
                                          THEN DT_REG ELSE DT_DIR,
                                          full_path)
              IN  IF IsSome(t)
                  THEN [st |-> [st EXCEPT !.dirs[d].offset = @ + 1,
                                          !.dirs[d].seen = Append(@, dirent)],
                        res |-> Some(dirent), panic |-> FALSE]
                  ELSE [st |-> st, res |-> None, panic |-> TRUE]
    ELSE [st |-> st, res |-> None, panic |-> FALSE]

\* Fs::rewinddir
\* a rewinddir that leaves the cursor where it is
Fs_rewinddir_keeps_cursor(st, d) ==
    [st EXCEPT !.dirs[d].seen = <<>>, !.dirs[d].ended = FALSE]

Fs_rewinddir(st, d) ==
    [st EXCEPT !.dirs[d].offset = 0, !.dirs[d].seen = <<>>, !.dirs[d].ended = FALSE]

(***************************************************************************)
(* kompo_fs::util                                                          *)
(***************************************************************************)
\* is_under_kompo_working_dir testing for the root instead of WD
is_under_root(other_path) == StartsWith(other_path, <<"/">>)

\* util::is_under_kompo_working_dir: a byte-prefix test against WD
is_under_kompo_working_dir(other_path) == StartsWith(other_path, WD)

\* `*path != b'/'`: the first byte (the terminator for the empty string)
first_is_slash(path) == path # <<>> /\ path[1] = "/"

\* util::expand_kompo_path: [panic, path]; the unwrap of WORKING_DIR panics
\* when a relative path meets an unset working directory
expand_kompo_path(st, raw_path) ==
    IF has_root(raw_path)
    THEN [panic |-> FALSE, path |-> raw_path]
    ELSE IF IsSome(st.working_dir)
         THEN [panic |-> FALSE,
               path |-> canonicalize_path(Unwrap(st.working_dir), raw_path)]
         ELSE [panic |-> TRUE, path |-> <<>>]

\* util::is_fd_exists_in_kompo
is_fd_exists_in_kompo(st, fd) == st.trie_init /\ is_fd_exists(st, fd)

\* util::is_dir_exists_in_kompo
is_dir_exists_in_kompo(st, d) == st.trie_init /\ is_fd_exists(st, st.dirs[d].fd)

\* TRIE.get_or_init(initialize_trie)
get_or_init(st) == [st EXCEPT !.trie_init = TRUE]

\* how open, stat, lstat, opendir and mkdir route a path:
\* "expand" (relative, working directory set), "direct" (under WD) or "real"
Route(st, path) ==
    IF IsSome(st.working_dir) /\ ~first_is_slash(path) THEN "expand"
    ELSE IF is_under_kompo_working_dir(path) THEN "direct"
    ELSE "real"

(***************************************************************************)
(* Flags and errno values.                                                 *)
(***************************************************************************)
O_RDONLY == {}
O_CREAT == {"O_CREAT"}
O_DIRECTORY == {"O_DIRECTORY"}
\* libc::O_TMPFILE on Linux is __O_TMPFILE | O_DIRECTORY
O_TMPFILE == {"__O_TMPFILE", "O_DIRECTORY"}
AT_FDCWD == -100

\* flags & x == x
HasFlag(flags, x) == x \subseteq flags

ENOENT == "ENOENT"
ENOTDIR == "ENOTDIR"
EFAULT == "EFAULT"
EBADF == "EBADF"

RECURSIVE BitAnd(_, _)
BitAnd(a, b) ==
    IF a = 0 \/ b = 0 THEN 0
    ELSE (a % 2) * (b % 2) + 2 * BitAnd(a \div 2, b \div 2)

(***************************************************************************)
(* kompo_fs::glue, the dispatcher.  rr is the value the next-symbol        *)
(* function returns if the call reaches it.                                *)
(***************************************************************************)
\* the result of trie.open(..).unwrap_or_else(|| { set_errno(ENOENT); -1 })
OpenOrEnoent(r) ==
    IF IsSome(r.res) THEN Out(r.st, Unwrap(r.res), NoErr, <<>>, <<>>)
    ELSE Out(r.st, -1, ENOENT, <<>>, <<>>)

\* inner_open without the O_DIRECTORY branch
inner_open_any_flag(st0, path, oflag) ==
    OpenOrEnoent(Fs_open(get_or_init(st0), components(path)))

\* open_from_fs::inner_open
inner_open(st0, path, oflag) ==
    LET path_vec == components(path)
        st == get_or_init(st0)
    IN  IF HasFlag(oflag, O_DIRECTORY)
        THEN LET sb == Fs_stat(path_vec) IN
             IF IsSome(sb)
             THEN IF BitAnd(Unwrap(sb).st_mode, S_IFMT) = S_IFDIR
                  THEN OpenOrEnoent(Fs_open(st, path_vec))
                  ELSE Out(st, -1, ENOTDIR, <<>>, <<>>)
             ELSE Out(st, -1, ENOENT, <<>>, <<>>)
        ELSE OpenOrEnoent(Fs_open(st, path_vec))

\* open_from_fs
open_from_fs(st, path, oflag, mode, rr) ==
    LET route == Route(st, path) IN
    IF route = "expand" THEN inner_open(st, expand_kompo_path(st, path).path, oflag)
    ELSE IF route = "direct" THEN inner_open(st, path, oflag)
    ELSE Out(st, rr, NoErr, <<RealCall("open", <<path, oflag, mode>>, rr)>>, <<>>)

\* openat_from_fs::inner_openat
inner_openat(st0, pathname) ==
    LET current_dir == canonicalize_path(Unwrap(st0.working_dir), pathname)
        st == get_or_init(st0)
    IN  OpenOrEnoent(Fs_open(st, components(current_dir)))

\* the is_create_flag of openat_from_fs (Linux)
is_create_flag(flags) == HasFlag(flags, O_CREAT) \/ HasFlag(flags, O_TMPFILE)

\* openat_from_fs
openat_from_fs(st, dirfd, pathname, flags, mode, rr) ==
    LET real == Out(st, rr, NoErr,
                    <<RealCall("openat", <<dirfd, pathname, flags, mode>>, rr)>>, <<>>)
    IN  IF is_create_flag(flags) THEN real
        ELSE IF is_under_kompo_working_dir(pathname)
        THEN open_from_fs(st, pathname, flags, mode, rr)
        ELSE IF dirfd = AT_FDCWD /\ IsSome(st.working_dir) /\ ~first_is_slash(pathname)
        THEN inner_openat(st, pathname)
        ELSE real

\* the real close: a descriptor of the table is closed and gives 0; for any
\* other descriptor (one the model does not track) the kernel's answer is rr
real_close(st, fd, rr) ==
    IF fd \in st.os_fds
    THEN Out([st EXCEPT !.os_fds = @ \ {fd}], 0, NoErr, <<RealCall("close", <<fd>>, 0)>>, <<>>)
    ELSE Out(st, rr, NoErr, <<RealCall("close", <<fd>>, rr)>>, <<>>)

\* the registry release of close_from_fs, as an event of the call
Release(fd) == [ev |-> "Fs::close", fd |-> fd]

\* close_from_fs with the real close before the registry release
close_real_first(st, fd, rr) ==
    LET c == real_close(st, fd, rr) IN
    IF is_fd_exists_in_kompo(st, fd)
    THEN Out(Fs_close(get_or_init(c.st), fd).st, c.ret, NoErr,
             c.trace \o <<Release(fd)>>, <<>>)
    ELSE c

\* close_from_fs
close_from_fs(st, fd, rr) ==
    IF is_fd_exists_in_kompo(st, fd)
    THEN LET st1 == Fs_close(get_or_init(st), fd).st
             c   == real_close(st1, fd, rr)
         IN  Out(c.st, c.ret, NoErr, <<Release(fd)>> \o c.trace, <<>>)
    ELSE real_close(st, fd, rr)

\* the real closes of Drop, one per key of fd_map; HashMap::keys gives them
\* in any order, here they are listed in ascending order
RECURSIVE CloseAll(_, _)
CloseAll(fds, os) ==
    IF fds = {} THEN <<>>
    ELSE LET fd == CHOOSE f \in fds : \A g \in fds : f <= g IN
         <<RealCall("close", <<fd>>, IF fd \in os THEN 0 ELSE -1)>>
            \o CloseAll(fds \ {fd}, os)

\* a drop that closes nothing
Fs_drop_nothing(st) ==
    Out([st EXCEPT !.fd_map = <<>>, !.delivered = <<>>, !.trie_init = FALSE],
        0, NoErr, <<>>, <<>>)

\* Drop for Fs: libc::close on every key of fd_map; the store is gone after it
Fs_drop(st) ==
    Out([st EXCEPT !.fd_map = <<>>, !.delivered = <<>>, !.trie_init = FALSE,
                   !.os_fds = @ \ DOMAIN st.fd_map],
        0, NoErr, CloseAll(DOMAIN st.fd_map, st.os_fds), <<>>)

\* inner_stat with the cache keyed by the file name alone
inner_stat_keyed_by_name(st, path, stat_null) ==
    IF stat_null THEN Out(st, -1, EFAULT, <<>>, <<>>)
    ELSE LET full == components(path)
             key == <<full[Len(full)]>>
         IN  IF key \in DOMAIN st.cache
             THEN Out(st, 0, NoErr, <<>>, st.cache[key])
             ELSE LET sb == Fs_stat(full) IN
                  IF IsSome(sb)
                  THEN Out([get_or_init(st) EXCEPT !.cache = With(@, key, Unwrap(sb))],
                           0, NoErr, <<>>, Unwrap(sb))
                  ELSE Out(get_or_init(st), -1, ENOENT, <<>>, <<>>)

\* inner_stat without the null test on the out-buffer
inner_stat_unchecked(st, path, stat_null) ==
    LET key == components(path)
        sb  == Fs_stat(key)
    IN  IF key \in DOMAIN st.cache THEN Out(st, 0, NoErr, <<>>, st.cache[key])
        ELSE IF IsSome(sb)
        THEN Out([get_or_init(st) EXCEPT !.cache = With(@, key, Unwrap(sb))],
                 0, NoErr, <<>>, Unwrap(sb))
        ELSE Out(get_or_init(st), -1, ENOENT, <<>>, <<>>)

\* stat_from_fs::inner_stat and lstat_from_fs::inner_lstat (Fs::lstat is Fs::stat)
inner_stat(st, path, stat_null) ==
    IF stat_null THEN Out(st, -1, EFAULT, <<>>, <<>>)
    ELSE LET key == components(path) IN
         IF key \in DOMAIN st.cache
         THEN Out(st, 0, NoErr, <<>>, st.cache[key])
         ELSE LET sb == Fs_stat(key) IN
              IF IsSome(sb)
              THEN Out([get_or_init(st) EXCEPT !.cache = With(@, key, Unwrap(sb))],
                       0, NoErr, <<>>, Unwrap(sb))
              ELSE Out(get_or_init(st), -1, ENOENT, <<>>, <<>>)

\* stat_from_fs (fn = "stat") and lstat_from_fs (fn = "lstat")
stat_from_fs(st, fn, path, stat_null, rr) ==
    LET route == Route(st, path) IN
    IF route = "expand" THEN inner_stat(st, expand_kompo_path(st, path).path, stat_null)
    ELSE IF route = "direct" THEN inner_stat(st, path, stat_null)
    ELSE Out(st, rr, NoErr, <<RealCall(fn, <<path, stat_null>>, rr)>>, <<>>)

\* fstatat_from_fs::inner_fstatat
inner_fstatat(st, path, stat_null) ==
    IF stat_null THEN Out(st, -1, EFAULT, <<>>, <<>>)
    ELSE LET current_dir == canonicalize_path(Unwrap(st.working_dir), path)
             sb == Fs_stat(components(current_dir))
         IN  IF IsSome(sb) THEN Out(get_or_init(st), 0, NoErr, <<>>, Unwrap(sb))
             ELSE Out(get_or_init(st), -1, ENOENT, <<>>, <<>>)

\* fstatat_from_fs
fstatat_from_fs(st, dirfd, pathname, stat_null, flags, rr) ==
    IF is_under_kompo_working_dir(pathname)
    THEN stat_from_fs(st, "stat", pathname, stat_null, rr)
    ELSE IF dirfd = AT_FDCWD /\ IsSome(st.working_dir) /\ ~first_is_slash(pathname)
    THEN inner_fstatat(st, pathname, stat_null)
    ELSE Out(st, rr, NoErr,
             <<RealCall("fstatat", <<dirfd, pathname, stat_null, flags>>, rr)>>, <<>>)

\* fstat_from_fs::inner_fstat
inner_fstat(st, fd, stat_null) ==
    IF stat_null THEN Out(st, -1, EFAULT, <<>>, <<>>)
    ELSE LET sb == Fs_fstat(st, fd) IN
         IF IsSome(sb) THEN Out(get_or_init(st), 0, NoErr, <<>>, Unwrap(sb))
         ELSE Out(get_or_init(st), -1, ENOENT, <<>>, <<>>)

\* fstat_from_fs
fstat_from_fs(st, fd, stat_null, rr) ==
    IF is_fd_exists_in_kompo(st, fd) THEN inner_fstat(st, fd, stat_null)
    ELSE Out(st, rr, NoErr, <<RealCall("fstat", <<fd, stat_null>>, rr)>>, <<>>)

\* read_from_fs
\* a read of the registry that hands out the bytes and forgets to advance
inner_read_lost_update(st, fd, count) ==
    LET r == Fs_read(get_or_init(st), fd, count) IN
    IF r.panic THEN Panic(st)
    ELSE IF IsSome(r.res) THEN Out(st, Unwrap(r.res), NoErr, <<>>, r.bytes)
    ELSE Out(r.st, -1, ENOENT, <<>>, <<>>)

\* inner_read: Fs::read under the lock of TRIE
inner_read(st, fd, count) ==
    LET r == Fs_read(get_or_init(st), fd, count) IN
    IF r.panic THEN Panic(st)
    ELSE IF IsSome(r.res) THEN Out(r.st, Unwrap(r.res), NoErr, <<>>, r.bytes)
    ELSE Out(r.st, -1, ENOENT, <<>>, <<>>)

real_read(st, fd, count, rr) ==
    Out(st, rr, NoErr, <<RealCall("read", <<fd, count>>, rr)>>, <<>>)

read_from_fs(st, fd, count, rr) ==
    IF is_fd_exists_in_kompo(st, fd)
    THEN inner_read(st, fd, count)
    ELSE real_read(st, fd, count, rr)

\* what the next mmap answers: a mapping or MAP_FAILED
MAP_FAILED == [ptr |-> "MAP_FAILED"]
Mapping == [ptr |-> "mapping"]
\* the protection and flags mmap_from_fs asks for
MapAnon == [prot |-> {"PROT_READ", "PROT_WRITE"}, flags |-> {"MAP_ANONYMOUS", "MAP_PRIVATE"}]
\* the protection and flags the caller passes
MapFile == [prot |-> {"PROT_READ"}, flags |-> {"MAP_PRIVATE"}]

\* an anonymous mapping of length bytes is zero-filled; bytes are written
\* over its front
ZeroFilled(bytes, length) ==
    [i \in 1..length |-> IF i <= Len(bytes) THEN bytes[i] ELSE 0]

\* mmap_from_fs: the caller's call goes to the next mmap unless fd is
\* registered; then an anonymous mapping is asked for and read_from_fs fills
\* it from the descriptor
mmap_from_fs(st, length, fd, offset, rr) ==
    IF fd = -1
    THEN Out(st, rr, NoErr,
             <<RealCall("mmap", <<length, MapFile, fd, offset>>, rr)>>, <<>>)
    ELSE IF is_fd_exists_in_kompo(st, fd)
    THEN LET call == RealCall("mmap", <<length, MapAnon, -1, offset>>, rr) IN
         IF rr = MAP_FAILED THEN Out(st, rr, NoErr, <<call>>, <<>>)
         ELSE LET r == read_from_fs(st, fd, length, -1) IN
              IF r.st.aborted THEN Out(r.st, r.ret, r.err, <<call>>, <<>>)
              ELSE IF r.ret >= 0
              THEN Out(r.st, rr, r.err, <<call>>, ZeroFilled(r.data, length))
              ELSE Out(r.st, MAP_FAILED, EBADF, <<call>>, <<>>)
    ELSE Out(st, rr, NoErr,
             <<RealCall("mmap", <<length, MapFile, fd, offset>>, rr)>>, <<>>)

\* getcwd_from_fs; the shapes other than (null, 0) are todo!()
getcwd_from_fs(st, buf_null, count, rr) ==
    IF IsSome(st.working_dir)
    THEN IF buf_null /\ count = 0
         THEN Out(st, StrPtr(Unwrap(st.working_dir)), NoErr, <<>>, <<>>)
         ELSE Panic(st)
    ELSE Out(st, RealPtr(rr), NoErr, <<RealCall("getcwd", <<buf_null, count>>, rr)>>, <<>>)

\* the value chdir_from_fs::inner_chdir returns after setting WORKING_DIR
CHDIR_OK == 1

\* chdir_from_fs::inner_chdir
inner_chdir(st0, path) ==
    LET st == get_or_init(st0) IN
    IF is_dir_exists_from_path(components(path))
    THEN Out([st EXCEPT !.working_dir = Some(path)], CHDIR_OK, NoErr, <<>>, <<>>)
    ELSE Out(st, -1, NoErr, <<>>, <<>>)

\* chdir_from_fs
chdir_from_fs(st, path, rr) ==
    LET change_dir == expand_kompo_path(st, path) IN
    IF change_dir.panic THEN Panic(st)
    ELSE IF is_under_kompo_working_dir(change_dir.path)
    THEN inner_chdir(st, change_dir.path)
    ELSE Out(IF rr = 0 THEN [st EXCEPT !.working_dir = None] ELSE st,
             rr, NoErr, <<RealCall("chdir", <<path>>, rr)>>, <<>>)

\* fdopendir_from_fs
fdopendir_from_fs(st, fd, rr) ==
    IF is_fd_exists_in_kompo(st, fd)
    THEN LET r == Fs_fdopendir(get_or_init(st), fd) IN
         IF IsSome(r.res) THEN Out(r.st, DirPtr(Unwrap(r.res)), NoErr, <<>>, <<>>)
         ELSE Out(r.st, NullPtr, NoErr, <<>>, <<>>)
    ELSE Out(st, RealPtr(rr), NoErr, <<RealCall("fdopendir", <<fd>>, rr)>>, <<>>)

\* readdir_from_fs: ret is the dirent (null included)
readdir_from_fs(st, d, rr) ==
    IF is_dir_exists_in_kompo(st, d)
    THEN LET r == Fs_readdir(get_or_init(st), d) IN
         IF r.panic THEN Panic(st)
         ELSE IF IsSome(r.res) THEN Out(r.st, Unwrap(r.res), NoErr, <<>>, <<>>)
         ELSE Out(r.st, NullDirent, NoErr, <<>>, <<>>)
    ELSE Out(st, RealPtr(rr), NoErr, <<RealCall("readdir", <<DirPtr(d)>>, rr)>>, <<>>)

\* closedir_from_fs: the stream is gone for the caller either way
closedir_from_fs(st, d, rr) ==
    LET fd == st.dirs[d].fd IN
    IF is_dir_exists_in_kompo(st, d)
    THEN LET st1 == Fs_close(get_or_init(st), fd).st
             c   == real_close(st1, fd, rr)
         IN  Out([c.st EXCEPT !.dirs = Without(@, d)], c.ret, NoErr,
                 <<Release(fd)>> \o c.trace, <<>>)
    ELSE Out([st EXCEPT !.dirs = Without(@, d)], rr, NoErr,
             <<RealCall("closedir", <<DirPtr(d)>>, rr)>>, <<>>)

\* opendir_from_fs::inner_opendir
inner_opendir(st, path) ==
    LET r == Fs_opendir(get_or_init(st), components(path)) IN
    IF IsSome(r.res) THEN Out(r.st, DirPtr(Unwrap(r.res)), NoErr, <<>>, <<>>)
    ELSE Out(r.st, NullPtr, NoErr, <<>>, <<>>)

\* opendir_from_fs
opendir_from_fs(st, path, rr) ==
    LET route == Route(st, path) IN
    IF route = "expand" THEN inner_opendir(st, expand_kompo_path(st, path).path)
    ELSE IF route = "direct" THEN inner_opendir(st, path)
    ELSE Out(st, RealPtr(rr), NoErr, <<RealCall("opendir", <<path>>, rr)>>, <<>>)

\* rewinddir_from_fs
rewinddir_from_fs(st, d) ==
    IF is_dir_exists_in_kompo(st, d)
    THEN Out(Fs_rewinddir(get_or_init(st), d), 0, NoErr, <<>>, <<>>)
    ELSE Out(st, 0, NoErr, <<RealCall("rewinddir", <<DirPtr(d)>>, 0)>>, <<>>)

\* realpath_from_fs: the canonicalized path, in a new allocation or copied
\* into resolved_path
realpath_from_fs(st, path, resolved_null, rr) ==
    IF (IsSome(st.working_dir) /\ ~first_is_slash(path))
       \/ is_under_kompo_working_dir(path)
    THEN LET e == expand_kompo_path(st, path) IN
         Out(st, StrPtr(e.path), NoErr, <<>>, IF resolved_null THEN <<>> ELSE e.path)
    ELSE Out(st, RealPtr(rr), NoErr,
             <<RealCall("realpath", <<path, resolved_null>>, rr)>>, <<>>)

\* mkdir_from_fs::inner_mkdir: a stat through the dispatcher, into a scratch buffer
inner_mkdir(st, path, rr) ==
    LET r == stat_from_fs(st, "stat", path, FALSE, rr) IN
    IF r.ret = 0 THEN Out(r.st, 0, r.err, r.trace, <<>>)
    ELSE Out(r.st, -1, ENOENT, r.trace, <<>>)

\* mkdir_from_fs; rr answers the real mkdir, rs the real stat inner_mkdir may reach
mkdir_from_fs(st, path, mode, rr, rs) ==
    LET route == Route(st, path) IN
    IF route = "expand" THEN inner_mkdir(st, expand_kompo_path(st, path).path, rs)
    ELSE IF route = "direct" THEN inner_mkdir(st, path, rs)
    ELSE Out(st, rr, NoErr, <<RealCall("mkdir", <<path, mode>>, rr)>>, <<>>)

\* an entrypoint setter that keeps the whole path
set_entrypoint_dir_whole(st, entrypoint_path) ==
    IF ~IsSome(entrypoint_path) THEN st
    ELSE [st EXCEPT !.working_dir = entrypoint_path]

\* kompo_fs_set_entrypoint_dir; entrypoint_path is an Option (None: null)
kompo_fs_set_entrypoint_dir(st, entrypoint_path) ==
    IF ~IsSome(entrypoint_path) THEN st
    ELSE LET p == parent(Unwrap(entrypoint_path)) IN
         IF IsSome(p) THEN [st EXCEPT !.working_dir = Some(Unwrap(p))] ELSE st

(***************************************************************************)
(* What a path names, for the histories and the properties.                *)
(***************************************************************************)
Absolute(path) == path # <<>> /\ path[1] = "/"

\* an absolute path that does not start with WD
Outside(path) == Absolute(path) /\ ~StartsWith(path, WD)

\* a path the path calls route to the store: relative while the working
\* directory wd is set, or starting with WD
Virtual(path, wd) == (IsSome(wd) /\ ~Absolute(path)) \/ StartsWith(path, WD)

\* comps resolved against the path vector stack: "." skipped, ".." one up
RECURSIVE Normalize(_, _)
Normalize(stack, comps) ==
    IF comps = <<>> THEN stack
    ELSE IF comps[1] = <<".">> THEN Normalize(stack, Tail(comps))
    ELSE IF comps[1] = <<".", ".">>
    THEN Normalize(IF Len(stack) > 1 THEN SubSeq(stack, 1, Len(stack) - 1) ELSE stack,
                   Tail(comps))
    ELSE Normalize(Append(stack, comps[1]), Tail(comps))

\* the path vector a virtual path names under working directory wd
Target(path, wd) ==
    IF Absolute(path) THEN components(path)
    ELSE Normalize(components(Unwrap(wd)), components(path))

(***************************************************************************)
(* The calls the host makes.  Every action is one intercepted call, taken  *)
(* whole.  The descriptor table and the FsDir heap are bounded: a call     *)
(* that would need a descriptor beyond MaxFd or a stream beyond MaxDirs is *)
(* not taken.                                                              *)
(***************************************************************************)
\* the answers of the next-symbol functions
RealFd == MaxFd + 2
RealInts == {0, -1}
RealOpens == {RealFd, -1}
RealPtrs == {"ptr", "null"}

\* the descriptors the host passes to close, read, fstat, fdopendir; the
\* standard streams stay open
HostFds == Fds \ StdFds

Effect(op, args, o) ==
    /\ ~aborted
    /\ (MaxFd + 1) \notin o.st.os_fds
    /\ (MaxDirs + 1) \notin DOMAIN o.st.dirs
    /\ trie_init' = o.st.trie_init
    /\ fd_map' = o.st.fd_map
    /\ os_fds' = o.st.os_fds
    /\ dirs' = o.st.dirs
    /\ working_dir' = o.st.working_dir
    /\ cache' = o.st.cache
    /\ aborted' = o.st.aborted
    /\ delivered' = o.st.delivered
    /\ last' = [op |-> op, args |-> args, ret |-> o.ret, err |-> o.err,
                trace |-> o.trace, data |-> o.data]
    /\ last_chdir' = IF op = "chdir" THEN Some([path |-> args.path, wd |-> args.wd])
                     ELSE IF op = "kompo_fs_set_entrypoint_dir" THEN None
                     ELSE last_chdir
    /\ stat_seen' = IF op \in {"stat", "lstat"} /\ ~o.st.aborted /\ o.ret = 0 /\ o.trace = <<>>
                    THEN LET key == Target(args.path, working_dir) IN
                         IF key \in DOMAIN stat_seen THEN stat_seen
                         ELSE With(stat_seen, key, [by |-> op, buf |-> o.data])
                    ELSE stat_seen
    /\ UNCHANGED <<ctx_vars, once_vars>>

\* a call no other thread's step falls into
Commit(op, args, o) == Effect(op, args, o) /\ UNCHANGED calls

\* the mode argument goes with the flags: creating calls pass 0644
ModeOf(flags) == IF is_create_flag(flags) THEN "0644" ELSE "0"

Open(P, F) ==
    \E path \in P, oflag \in F, rr \in RealOpens :
        Commit("open", [path |-> path, oflag |-> oflag, mode |-> ModeOf(oflag)],
               open_from_fs(St, path, oflag, ModeOf(oflag), rr))

OpenAt(D, P, F) ==
    \E dirfd \in D, path \in P, flags \in F, rr \in RealOpens :
        Commit("openat",
               [dirfd |-> dirfd, path |-> path, oflag |-> flags, mode |-> ModeOf(flags)],
               openat_from_fs(St, dirfd, path, flags, ModeOf(flags), rr))

Close ==
    \E fd \in HostFds, rr \in RealInts :
        Commit("close", [fd |-> fd, registered |-> is_fd_exists_in_kompo(St, fd)],
               close_from_fs(St, fd, rr))

\* the descriptors FsDir streams carry
StreamFds == {dirs[d].fd : d \in DOMAIN dirs}

\* close by an application that leaves the descriptor of a stream to
\* closedir and closes no descriptor twice: fd is registered, or is one the
\* real open returned
CloseOnce ==
    \E fd \in ((DOMAIN fd_map) \ StreamFds) \cup {RealFd}, rr \in RealInts :
        Commit("close", [fd |-> fd, registered |-> is_fd_exists_in_kompo(St, fd)],
               close_from_fs(St, fd, rr))

\* fdopendir by an application that hands a descriptor to one stream only
FdopendirOnce ==
    \E fd \in (HostFds \ StreamFds), rr \in RealPtrs :
        Commit("fdopendir", [fd |-> fd], fdopendir_from_fs(St, fd, rr))

\* the registry called directly, as the owner of an Fs value calls it
FsRead ==
    /\ trie_init
    /\ \E fd \in HostFds, buf_len \in 0..MaxBuf :
          LET r == Fs_read(St, fd, buf_len) IN
          Commit("Fs::read", [fd |-> fd, buf_len |-> buf_len],
                 IF r.panic THEN Panic(St)
                 ELSE Out(r.st, r.res, NoErr, <<>>, r.bytes))

FsClose ==
    /\ trie_init
    /\ \E fd \in HostFds :
          LET r == Fs_close(St, fd) IN
          Commit("Fs::close", [fd |-> fd], Out(r.st, r.res, NoErr, <<>>, <<>>))

FsFdopendir ==
    /\ trie_init
    /\ \E fd \in HostFds :
          LET r == Fs_fdopendir(St, fd) IN
          Commit("Fs::fdopendir", [fd |-> fd], Out(r.st, r.res, NoErr, <<>>, <<>>))

FsFstat ==
    /\ trie_init
    /\ \E fd \in HostFds :
          LET r == Fs_fstat(St, fd) IN
          Commit("Fs::fstat", [fd |-> fd],
                 Out(St, IF IsSome(r) THEN Some(0) ELSE None, NoErr, <<>>,
                     IF IsSome(r) THEN Unwrap(r) ELSE <<>>))

FsOpendir(V) ==
    /\ trie_init
    /\ \E path \in V :
          LET r == Fs_opendir(St, path) IN
          Commit("Fs::opendir", [path |-> path], Out(r.st, r.res, NoErr, <<>>, <<>>))

\* the store is dropped
Drop ==
    /\ trie_init
    /\ Commit("drop", [keys |-> DOMAIN fd_map], Fs_drop(St))

Read ==
    \E fd \in HostFds, count \in 1..MaxBuf, rr \in RealInts :
        Commit("read",
               [fd |-> fd, count |-> count,
                registered |-> is_fd_exists_in_kompo(St, fd),
                offset |-> IF fd \in DOMAIN fd_map /\ fd_map[fd].kind = "File"
                           THEN fd_map[fd].offset ELSE 0],
               read_from_fs(St, fd, count, rr))

\* mmap with a null address; lengths reach past the longest bundled file
Mmap ==
    \E fd \in HostFds \cup {-1}, length \in 1..(MaxBuf + 2), rr \in {Mapping, MAP_FAILED} :
        Commit("mmap",
               [fd |-> fd, length |-> length, offset |-> 0,
                registered |-> is_fd_exists_in_kompo(St, fd)],
               mmap_from_fs(St, length, fd, 0, rr))

Stat(P) ==
    \E path \in P, stat_null \in BOOLEAN, rr \in RealInts :
        Commit("stat", [path |-> path, stat_null |-> stat_null],
               stat_from_fs(St, "stat", path, stat_null, rr))

Lstat(P) ==
    \E path \in P, stat_null \in BOOLEAN, rr \in RealInts :
        Commit("lstat", [path |-> path, stat_null |-> stat_null],
               stat_from_fs(St, "lstat", path, stat_null, rr))

Fstatat(D, P) ==
    \E dirfd \in D, path \in P, stat_null \in BOOLEAN, rr \in RealInts :
        Commit("fstatat",
               [dirfd |-> dirfd, path |-> path, stat_null |-> stat_null, flags |-> 0],
               fstatat_from_fs(St, dirfd, path, stat_null, 0, rr))

Fstat ==
    \E fd \in HostFds, stat_null \in BOOLEAN, rr \in RealInts :
        Commit("fstat",
               [fd |-> fd, stat_null |-> stat_null,
                registered |-> is_fd_exists_in_kompo(St, fd)],
               fstat_from_fs(St, fd, stat_null, rr))

Getcwd ==
    \E rr \in RealPtrs :
        Commit("getcwd", [buf_null |-> TRUE, count |-> 0],
               getcwd_from_fs(St, TRUE, 0, rr))

Chdir(P) ==
    \E path \in P, rr \in RealInts :
        Commit("chdir", [path |-> path, wd |-> working_dir],
               chdir_from_fs(St, path, rr))

Opendir(P) ==
    \E path \in P, rr \in RealPtrs :
        Commit("opendir", [path |-> path], opendir_from_fs(St, path, rr))

Fdopendir ==
    \E fd \in HostFds, rr \in RealPtrs :
        Commit("fdopendir", [fd |-> fd], fdopendir_from_fs(St, fd, rr))

Readdir ==
    \E d \in DOMAIN dirs, rr \in RealPtrs :
        Commit("readdir", [d |-> d, fd |-> dirs[d].fd, offset |-> dirs[d].offset],
               readdir_from_fs(St, d, rr))

Rewinddir ==
    \E d \in DOMAIN dirs :
        Commit("rewinddir", [d |-> d, offset |-> dirs[d].offset, ended |-> dirs[d].ended],
               rewinddir_from_fs(St, d))

Closedir ==
    \E d \in DOMAIN dirs, rr \in RealInts :
        Commit("closedir", [d |-> d, fd |-> dirs[d].fd], closedir_from_fs(St, d, rr))

Realpath(P) ==
    \E path \in P, resolved_null \in BOOLEAN, rr \in RealPtrs :
        Commit("realpath", [path |-> path, resolved_null |-> resolved_null],
               realpath_from_fs(St, path, resolved_null, rr))

Mkdir(P) ==
    \E path \in P, rr \in RealInts, rs \in RealInts :
        Commit("mkdir", [path |-> path, mode |-> "0755"],
               mkdir_from_fs(St, path, "0755", rr, rs))

SetEntrypointDir(E) ==
    \E entry \in E :
        Commit("kompo_fs_set_entrypoint_dir", [path |-> entry],
               Out(kompo_fs_set_entrypoint_dir(St, entry), 0, NoErr, <<>>, <<>>))

\* util::canonicalize_path applied to a base and a path to join; base is
\* updated in place, its new value is what the call leaves behind
CanonicalizePath(B, J) ==
    \E base \in B, join_path \in J :
        Commit("canonicalize_path", [base |-> base, join_path |-> join_path],
               Out(St, canonicalize_path(base, join_path), NoErr, <<>>, <<>>))

(***************************************************************************)
(* The context flag: Kompo.context and Kompo.context? called by the        *)
(* threads of the host.  A thread inside a block may call either again.    *)
(***************************************************************************)
\* libc::pthread_self() of the threads
Threads == 1..MaxThreads

\* the descriptors the threads read and close at the same time: the first
\* two dup(0) hands out
ConcFds == {3, 4}

\* a thread outside read and close
Idle == [op |-> "none"]

\* the offset of a registered file descriptor, 0 for anything else
OffsetOf(fd) ==
    IF fd \in DOMAIN fd_map /\ fd_map[fd].kind = "File" THEN fd_map[fd].offset ELSE 0

\* what a step inside a call leaves alone besides the registry
inside_frame == <<trie_init, os_fds, dirs, working_dir, cache, aborted, last,
                  last_chdir, stat_seen, ctx_vars, once_vars>>

\* read_from_fs up to the answer of is_fd_exists_in_kompo
ReadEnter(t) ==
    /\ ~aborted
    /\ calls[t] = Idle
    /\ \E fd \in ConcFds, count \in {1} :
          calls' = [calls EXCEPT ![t] =
                       [op |-> "read", fd |-> fd, count |-> count,
                        virtual |-> is_fd_exists_in_kompo(St, fd),
                        entered_at |-> OffsetOf(fd)]]
    /\ UNCHANGED <<inside_frame, fd_map, delivered>>

\* the rest of read_from_fs: inner_read under the lock, or the real read
ReadLeave(t) ==
    /\ calls[t].op = "read"
    /\ \E rr \in RealInts :
          LET c == calls[t] IN
          Effect("read",
                 [fd |-> c.fd, count |-> c.count, registered |-> c.virtual,
                  offset |-> OffsetOf(c.fd), entered_at |-> c.entered_at],
                 IF c.virtual THEN inner_read(St, c.fd, c.count)
                 ELSE real_read(St, c.fd, c.count, rr))
    /\ calls' = [calls EXCEPT ![t] = Idle]

\* close_from_fs up to the answer of is_fd_exists_in_kompo
CloseEnter(t) ==
    /\ ~aborted
    /\ calls[t] = Idle
    /\ \E fd \in ConcFds :
          calls' = [calls EXCEPT ![t] =
                       [op |-> "close", fd |-> fd,
                        virtual |-> is_fd_exists_in_kompo(St, fd),
                        at |-> IF is_fd_exists_in_kompo(St, fd) THEN "lock" ELSE "real"]]
    /\ UNCHANGED <<inside_frame, fd_map, delivered>>

\* close_from_fs: Fs::close under the lock
CloseRelease(t) ==
    /\ ~aborted
    /\ calls[t].op = "close"
    /\ calls[t].at = "lock"
    /\ LET o == Fs_close(get_or_init(St), calls[t].fd) IN
          /\ fd_map' = o.st.fd_map
          /\ delivered' = o.st.delivered
    /\ calls' = [calls EXCEPT ![t].at = "real"]
    /\ UNCHANGED inside_frame

\* close_from_fs: the real close, after the lock was given back
CloseLeave(t) ==
    /\ calls[t].op = "close"
    /\ calls[t].at = "real"
    /\ \E rr \in RealInts :
          LET c == calls[t]
              o == real_close(St, c.fd, rr)
          IN  Effect("close", [fd |-> c.fd, registered |-> c.virtual],
                     Out(o.st, o.ret, NoErr,
                         IF c.virtual THEN <<Release(c.fd)>> \o o.trace ELSE o.trace,
                         <<>>))
    /\ calls' = [calls EXCEPT ![t] = Idle]

\* the path calls whose routing test and resolution are separate reads of
\* WORKING_DIR
StagedOps == {"open", "openat", "stat", "lstat", "fstatat", "opendir", "mkdir"}

\* the answers the real function of op may give
Oracle(op) ==
    IF op = "opendir" THEN RealPtrs
    ELSE IF op \in {"open", "openat"} THEN RealOpens
    ELSE RealInts

\* the whole dispatcher of op on path, in one piece
Whole(op, st, path, rr) ==
    CASE op = "open" -> open_from_fs(st, path, O_RDONLY, "0", rr)
      [] op = "openat" -> openat_from_fs(st, AT_FDCWD, path, O_RDONLY, "0", rr)
      [] op \in {"stat", "lstat"} -> stat_from_fs(st, op, path, FALSE, rr)
      [] op = "fstatat" -> fstatat_from_fs(st, AT_FDCWD, path, FALSE, 0, rr)
      [] op = "opendir" -> opendir_from_fs(st, path, rr)
      [] op = "mkdir" -> mkdir_from_fs(st, path, "0755", rr, rr)

\* the routing test of op sends a relative path to the virtual store
RoutedToExpand(op, st, path) ==
    IF op \in {"openat", "fstatat"}
    THEN /\ ~is_under_kompo_working_dir(path)
         /\ IsSome(st.working_dir) /\ ~first_is_slash(path)
    ELSE Route(st, path) = "expand"

\* what follows that routing test: WORKING_DIR is read again and unwrapped,
\* by expand_kompo_path or by inner_openat and inner_fstatat themselves
Rest(op, st, path, rr) ==
    IF op \in {"openat", "fstatat"}
    THEN IF ~IsSome(st.working_dir) THEN Panic(st)
         ELSE IF op = "openat" THEN inner_openat(st, path)
         ELSE inner_fstatat(st, path, FALSE)
    ELSE LET e == expand_kompo_path(st, path) IN
         IF e.panic THEN Panic(st)
         ELSE CASE op = "open" -> inner_open(st, e.path, O_RDONLY)
                [] op \in {"stat", "lstat"} -> inner_stat(st, e.path, FALSE)
                [] op = "opendir" -> inner_opendir(st, e.path)
                [] op = "mkdir" -> inner_mkdir(st, e.path, rr)

\* a path call up to its routing test; a call not routed to the expansion
\* has no second read and is finished here
PathEnter(t, P) ==
    /\ ~aborted
    /\ calls[t] = Idle
    /\ \E op \in StagedOps, path \in P :
          IF RoutedToExpand(op, St, path)
          THEN /\ calls' = [calls EXCEPT ![t] =
                              [op |-> op, path |-> path, wd |-> working_dir]]
               /\ UNCHANGED <<inside_frame, fd_map, delivered>>
          ELSE \E rr \in Oracle(op) :
                  Commit(op, [path |-> path, staged |-> FALSE,
                              wd_before |-> working_dir, wd_after |-> working_dir],
                         Whole(op, St, path, rr))

\* the rest of the call, on the working directory as it is now
PathLeave(t) ==
    /\ calls[t].op \in StagedOps
    /\ \E rr \in Oracle(calls[t].op) :
          LET c == calls[t] IN
          Effect(c.op, [path |-> c.path, staged |-> TRUE,
                        wd_before |-> c.wd, wd_after |-> working_dir],
                 Rest(c.op, St, c.path, rr))
    /\ calls' = [calls EXCEPT ![t] = Idle]

(***************************************************************************)
(* The locks: the store mutex (TRIE), and the read-write locks of          *)
(* WORKING_DIR, FILE_TYPE_CACHE and THREAD_CONTEXT.  A call is the list of *)
(* lock steps its handler makes, in source order; which list a call takes  *)
(* depends on its arguments and on the store, and every list can be taken. *)
(***************************************************************************)
MaxCalls == 2

Acq(l, m) == [a |-> "acquire", l |-> l, m |-> m]
Rel(l) == [a |-> "release", l |-> l]

\* a guard that lives for one expression
Briefly(l, m) == <<Acq(l, m), Rel(l)>>

\* the routing test: WORKING_DIR.read().unwrap().is_some()
RouteTest == Briefly("wd", "r")

\* an inner_open that keeps its first guard while it locks again
inner_open_locks_kept(directory) ==
    IF directory
    THEN <<Acq("store", "w"), Acq("store", "w"), Rel("store")>>
    ELSE Briefly("store", "w")

\* inner_open: with O_DIRECTORY on a directory the guard of the stat is
\* dropped before the store is locked again for the open
inner_open_locks(directory) ==
    IF directory
    THEN Briefly("store", "w") \o Briefly("store", "w")
    ELSE Briefly("store", "w")

\* inner_openat and inner_fstatat: the read guard of WORKING_DIR lives to the
\* end of the function, the store is locked under it
inner_openat_locks ==
    <<Acq("wd", "r"), Acq("store", "w"), Rel("store"), Rel("wd")>>

\* inner_stat and inner_lstat: the cache is read; on a miss the store is
\* locked and the cache written under it
inner_stat_locks(cached) ==
    IF cached
    THEN Briefly("cache", "r")
    ELSE Briefly("cache", "r")
         \o <<Acq("store", "w"), Acq("cache", "w"), Rel("cache"), Rel("store")>>

\* the lock steps of each kind of call
LockSteps(fn) ==
    CASE fn = "open" -> RouteTest \o inner_open_locks(FALSE)
      [] fn = "open_directory" -> RouteTest \o inner_open_locks(TRUE)
      [] fn = "openat" -> RouteTest \o inner_openat_locks
      [] fn = "stat" -> RouteTest \o inner_stat_locks(FALSE)
      [] fn = "stat_cached" -> RouteTest \o Briefly("wd", "r") \o inner_stat_locks(TRUE)
      [] fn = "chdir" -> Briefly("wd", "r") \o Briefly("store", "w") \o Briefly("wd", "w")
      [] fn = "getcwd" -> RouteTest \o Briefly("wd", "r")
      [] fn = "read" -> Briefly("store", "w")
      [] fn = "context" -> Briefly("ctx", "w") \o Briefly("ctx", "w")
      [] fn = "context?" -> Briefly("ctx", "r")

LockCalls == {"open", "open_directory", "openat", "stat", "stat_cached",
              "chdir", "getcwd", "read", "context", "context?"}

\* the calls thread t has finished
Finished(t) == IF calls[t].op \in {"call", "returned"} THEN calls[t].n ELSE 0

\* the locks thread t holds
Holds(t) == IF calls[t].op = "call" THEN calls[t].holds ELSE {}

\* thread t is about to acquire lock l in mode m
Wants(t, l, m) ==
    /\ calls[t].op = "call"
    /\ calls[t].rest # <<>>
    /\ Head(calls[t].rest) = Acq(l, m)

\* lock l can be given to thread t in mode m: nobody, t included, holds it in
\* a conflicting mode, and a reader does not pass a waiting writer
Grantable(t, l, m) ==
    /\ \A h \in Holds(t) : h.l # l
    /\ \A u \in Threads \ {t} :
          /\ \A h \in Holds(u) : h.l = l => (m = "r" /\ h.m = "r")
          /\ m = "r" => ~Wants(u, l, "w")

\* a thread enters a call
LockEnter(t) ==
    /\ calls[t].op \in {"none", "returned"}
    /\ Finished(t) < MaxCalls
    /\ \E fn \in LockCalls :
          calls' = [calls EXCEPT ![t] =
                       [op |-> "call", fn |-> fn, rest |-> LockSteps(fn),
                        holds |-> {}, n |-> Finished(t)]]
    /\ UNCHANGED <<inside_frame, fd_map, delivered>>

\* the next lock step of the call of thread t; after the last one it returns
LockStep(t) ==
    /\ calls[t].op = "call"
    /\ LET c == calls[t]
           step == Head(c.rest)
           holds == IF step.a = "acquire"
                    THEN c.holds \cup {[l |-> step.l, m |-> step.m]}
                    ELSE {h \in c.holds : h.l # step.l}
       IN  /\ step.a = "acquire" => Grantable(t, step.l, step.m)
           /\ calls' = [calls EXCEPT ![t] =
                           IF Tail(c.rest) = <<>>
                           THEN [op |-> "returned", n |-> c.n + 1]
                           ELSE [c EXCEPT !.rest = Tail(c.rest), !.holds = holds]]
    /\ UNCHANGED <<inside_frame, fd_map, delivered>>

\* Ruby::TRUE, FALSE, NIL as the host sees them
Ruby == [TRUE |-> "true", FALSE |-> "false", NIL |-> "nil"]

\* THREAD_CONTEXT.get().expect(..).write().insert(tid, flag)
insert(tc, tid, flag) == Some(With(Unwrap(tc), tid, flag))

\* context_func up to rb_ensure: the flag of the thread is set, the block is
\* about to run; a panic when THREAD_CONTEXT was never set
context_func(tc, tid) ==
    IF ~IsSome(tc) THEN [panic |-> TRUE, tc |-> tc]
    ELSE [panic |-> FALSE, tc |-> insert(tc, tid, TRUE)]

\* context_func::close, run by rb_ensure when the block returns or unwinds
close(tc, tid) == insert(tc, tid, FALSE)

\* is_context_func: the flag of the thread; a panic when THREAD_CONTEXT was
\* never set, and unreachable!() when the map does not hold the thread
is_context_func(tc, tid) ==
    IF ~IsSome(tc) THEN [panic |-> TRUE, ret |-> Ruby.NIL]
    ELSE IF tid \in DOMAIN Unwrap(tc)
    THEN [panic |-> FALSE, ret |-> IF Unwrap(tc)[tid] THEN Ruby.TRUE ELSE Ruby.FALSE]
    ELSE [panic |-> TRUE, ret |-> Ruby.NIL]

CtxCommit(op, args, ret, tc, depth, panic) ==
    /\ ~aborted
    /\ thread_context' = tc
    /\ ctx_depth' = depth
    /\ aborted' = panic
    /\ last' = [op |-> op, args |-> args, ret |-> IF panic THEN "panic" ELSE ret,
                err |-> NoErr, trace |-> <<>>, data |-> <<>>]
    /\ UNCHANGED <<call_vars, once_vars, calls>>

\* the embedding host fills the public static, once
SetThreadContext ==
    /\ ~IsSome(thread_context)
    /\ CtxCommit("THREAD_CONTEXT.set", <<>>, 0, Some(<<>>), ctx_depth, FALSE)

\* Kompo.context: rb_need_block raises without a block; otherwise the flag is
\* set and the block starts
ContextEnter ==
    \E t \in Threads, has_block \in BOOLEAN :
        LET c == context_func(thread_context, t) IN
        /\ ctx_depth[t] < MaxDepth
        /\ IF ~has_block
           THEN CtxCommit("context", [thread |-> t, has_block |-> FALSE], "LocalJumpError",
                          thread_context, ctx_depth, FALSE)
           ELSE CtxCommit("context", [thread |-> t, has_block |-> TRUE], "yield", c.tc,
                          IF c.panic THEN ctx_depth ELSE [ctx_depth EXCEPT ![t] = @ + 1],
                          c.panic)

\* the innermost block of a thread ends, by return or by an unwind of the
\* host; rb_ensure runs close either way
ContextLeave ==
    \E t \in Threads, how \in {"return", "unwind"} :
        /\ ctx_depth[t] > 0
        /\ CtxCommit("context_end", [thread |-> t, how |-> how], how,
                     close(thread_context, t), [ctx_depth EXCEPT ![t] = @ - 1], FALSE)

\* Kompo.context?
IsContext ==
    \E t \in Threads :
        LET r == is_context_func(thread_context, t) IN
        CtxCommit("context?", [thread |-> t], r.ret, thread_context, ctx_depth, r.panic)

(***************************************************************************)
(* The one-time initialization of TRIE, step by step.  Every intercepted   *)
(* call that works on the store starts with TRIE.get_or_init(              *)
(* initialize_trie) and clones the Arc it gets; threads run these steps in *)
(* any interleaving.                                                       *)
(***************************************************************************)
\* an entry that lets every thread that finds TRIE unset run the initializer
once_enter_unguarded(is_set, pcs) ==
    IF is_set THEN "have" ELSE "running"

\* OnceLock::get_or_init on entry: the value when set; otherwise the first
\* thread runs the initializer and the others wait for it
once_enter(is_set, pcs) ==
    IF is_set THEN "have"
    ELSE IF \E u \in DOMAIN pcs : pcs[u] = "running" THEN "waiting"
    ELSE "running"

OnceCommit(op, t, pcs, h, inst, runs) ==
    /\ ~aborted
    /\ init_pc' = pcs
    /\ handle' = h
    /\ trie_instance' = inst
    /\ loader_runs' = runs
    /\ trie_init' = IsSome(inst)
    /\ last' = [op |-> op, args |-> [thread |-> t], ret |-> h[t], err |-> NoErr,
                trace |-> <<>>, data |-> <<>>]
    /\ UNCHANGED <<fd_map, os_fds, dirs, working_dir, cache, aborted, delivered,
                   last_chdir, stat_seen, ctx_vars, calls>>

\* a thread reaches TRIE.get_or_init(initialize_trie) in an intercepted call
GetOrInit ==
    \E t \in Threads :
        LET to == once_enter(IsSome(trie_instance), init_pc) IN
        /\ init_pc[t] = "idle"
        /\ OnceCommit("get_or_init", t,
                      IF to = "have" THEN init_pc ELSE [init_pc EXCEPT ![t] = to],
                      IF to = "have" THEN [handle EXCEPT ![t] = trie_instance] ELSE handle,
                      trie_instance, loader_runs)

\* initialize_trie: the thread that runs the initializer builds an Fs from
\* the bundle; the OnceLock keeps the first value it is given
InitializeTrie ==
    \E t \in Threads :
        LET built == Some(loader_runs + 1)
            kept  == IF IsSome(trie_instance) THEN trie_instance ELSE built
        IN  /\ init_pc[t] = "running"
            /\ OnceCommit("initialize_trie", t, [init_pc EXCEPT ![t] = "idle"],
                          [handle EXCEPT ![t] = built], kept, loader_runs + 1)

\* a thread that waited finds TRIE set
OnceWake ==
    \E t \in Threads :
        /\ init_pc[t] = "waiting"
        /\ IsSome(trie_instance)
        /\ OnceCommit("get_or_init", t, [init_pc EXCEPT ![t] = "idle"],
                      [handle EXCEPT ![t] = trie_instance], trie_instance, loader_runs)

(***************************************************************************)
(* Paths the host uses.                                                    *)
(***************************************************************************)
p_t == <<"/", "t">>                                  \* /t      directory (WD)
p_a == <<"/", "t", "/", "a">>                        \* /t/a    file, 3 bytes
p_d == <<"/", "t", "/", "d">>                        \* /t/d    directory
p_x == <<"/", "t", "/", "d", "/", "x">>              \* /t/d/x  file, empty
p_s == <<"/", "t", "/", "d", "/", "s">>              \* /t/d/s  directory
p_z == <<"/", "t", "/", "z">>                        \* /t/z    absent
p_tz == <<"/", "t", "z">>                            \* /tz     absent, WD is a byte prefix
p_dot == <<"/", "t", "/", ".", "/", "d", "/">>       \* /t/./d/ directory, not normalized
p_o == <<"/", "o">>                                  \* /o      outside WD
p_of == <<"/", "o", "/", "f">>                       \* /o/f    outside WD
r_a == <<"a">>                                       \* a       relative
r_d == <<"d">>                                       \* d       relative
r_x == <<"d", "/", ".", "/", "x">>                   \* d/./x   relative
r_up == <<".", ".", "/", "a">>                       \* ../a    relative
r_s == <<".", "/", "s">>                             \* ./s     relative
r_dd == <<".", ".">>                                 \* ..      relative
e_m == <<"/", "t", "/", "m">>                        \* /t/m    an entrypoint script
e_app == <<"/", "a", "p", "p", "/", "b", "i", "n", "/",
           "m", "a", "i", "n", ".", "r", "b">>        \* /app/bin/main.rb
e_root == <<"/", "m", "a", "i", "n", ".", "r", "b">>  \* /main.rb
p_up == <<"/", "t", "/", "d", "/", ".", ".", "/", "a">>  \* /t/d/../a
r_o == <<".", ".", "/", "o">>                        \* ../o    relative

\* bases and joined paths for canonicalize_path
Bases ==
    { <<"/">>, <<"/", "a">>, <<"/", "a", "/", "b">>, <<"/", "h", "o", "m", "e">>,
      <<"/", "a", "/">>, p_t, p_d, r_a }
Joins ==
    { <<".", ".", "/", "c", "/", ".", "/", "d">>, <<".", ".", "/", ".", ".", "/", "b">>,
      <<"/", "e", "t", "c", "/", "c">>, <<"c">>, <<".">>, <<".", ".">>, <<>>,
      <<".", "/", "c">>, <<"c", "/", ".", ".">>, <<"c", "/", "/", "d", "/">>,
      r_x, r_up }

DirFds == {AT_FDCWD, RealFd}

Init ==
    /\ trie_init = FALSE
    /\ fd_map = <<>>
    /\ os_fds = StdFds
    /\ dirs = <<>>
    /\ working_dir = None
    /\ cache = <<>>
    /\ aborted = FALSE
    /\ delivered = <<>>
    /\ last = [op |-> "none", args |-> <<>>, ret |-> 0, err |-> NoErr,
               trace |-> <<>>, data |-> <<>>]
    /\ last_chdir = None
    /\ thread_context = None
    /\ ctx_depth = [t \in Threads |-> 0]
    /\ init_pc = [t \in Threads |-> "idle"]
    /\ handle = [t \in Threads |-> None]
    /\ trie_instance = None
    /\ loader_runs = 0
    /\ stat_seen = <<>>
    /\ calls = [t \in Threads |-> Idle]

(***************************************************************************)
(* Files: open, read to the end, close, with the working directory set or  *)
(* not and stat beside.                                                    *)
(***************************************************************************)
FilePaths == {p_a, p_x, p_z, r_a, p_of}

NextFile ==
    \/ Open(FilePaths, {O_RDONLY})
    \/ OpenAt({AT_FDCWD}, {r_x}, {O_RDONLY})
    \/ Read
    \/ Close
    \/ Stat({p_a})
    \/ Fstat
    \/ Chdir({p_t})

SpecFile == Init /\ [][NextFile]_vars

(***************************************************************************)
(* Directories: opendir or open + fdopendir, readdir to the end, rewinddir,*)
(* closedir.                                                               *)
(***************************************************************************)
NextDir ==
    \/ Opendir({p_d, p_t, p_s, p_a, p_z, r_d})
    \/ Open({p_d}, {O_DIRECTORY})
    \/ Fdopendir
    \/ Readdir
    \/ Rewinddir
    \/ Closedir
    \/ Chdir({p_t})

SpecDir == Init /\ [][NextDir]_vars

(***************************************************************************)
(* Routing: the path calls on paths outside WD, under WD and relative,     *)
(* with and without creation flags, with the working directory set or not. *)
(***************************************************************************)
NextRoute ==
    \/ Open({p_a, p_of, r_a}, {O_RDONLY, O_CREAT, O_TMPFILE})
    \/ OpenAt(DirFds, {p_of, r_a}, {O_RDONLY, O_CREAT})
    \/ Stat({p_of})
    \/ Lstat({p_o})
    \/ Fstatat({AT_FDCWD}, {p_of, r_a})
    \/ Opendir({p_o})
    \/ Mkdir({p_o})
    \/ Realpath({p_of})
    \/ Chdir({p_t, p_o})
    \/ Close

SpecRoute == Init /\ [][NextRoute]_vars

(***************************************************************************)
(* Metadata: open with and without O_DIRECTORY, stat, lstat and fstat on   *)
(* files, directories and absent paths.                                    *)
(***************************************************************************)
NextMeta ==
    \/ Open({p_a, p_d, p_z, p_tz, p_dot, r_d}, {O_RDONLY, O_DIRECTORY})
    \/ Stat({p_a, p_d, p_z, r_d})
    \/ Lstat({p_a, p_z, r_x})
    \/ Fstat
    \/ Close
    \/ Chdir({p_t})

SpecMeta == Init /\ [][NextMeta]_vars

(***************************************************************************)
(* The working directory: chdir, getcwd, kompo_fs_set_entrypoint_dir, with *)
(* stat between.                                                           *)
(***************************************************************************)
NextCwd ==
    \/ Chdir({p_t, p_d, p_dot, p_a, p_z, p_o, r_d, r_s, r_dd, r_up})
    \/ Getcwd
    \/ SetEntrypointDir({None, Some(e_m), Some(p_of)})
    \/ Stat({r_a, p_d})

SpecCwd == Init /\ [][NextCwd]_vars

(***************************************************************************)
(* Path resolution: canonicalize_path on its own, and expand_kompo_path    *)
(* seen through realpath and stat.                                         *)
(***************************************************************************)
NextPath ==
    \/ CanonicalizePath(Bases, Joins)
    \/ Realpath({p_a, p_d, p_up, r_up, r_x})
    \/ Stat({p_up, r_up})
    \/ SetEntrypointDir({None, Some(e_m), Some(e_app), Some(e_root), Some(<<"/">>), Some(r_x)})

SpecPath == Init /\ [][NextPath]_vars

(***************************************************************************)
(* The context flag under calls from every thread.                         *)
(***************************************************************************)
NextCtx ==
    \/ SetThreadContext
    \/ ContextEnter
    \/ ContextLeave
    \/ IsContext

SpecCtx == Init /\ [][NextCtx]_vars

(***************************************************************************)
(* Concurrent first calls: the initialization of TRIE.                     *)
(***************************************************************************)
\* a thread is past get_or_init and holds its clone of the Arc
HasStore(t) == init_pc[t] = "idle" /\ IsSome(handle[t])

NextOnce ==
    \/ GetOrInit
    \/ InitializeTrie
    \/ OnceWake
    \/ (\E t \in Threads : HasStore(t)) /\ Open({p_a}, {O_RDONLY})
    \/ (\E t \in Threads : HasStore(t)) /\ Close

SpecOnce == Init /\ [][NextOnce]_vars

(***************************************************************************)
(* stat and lstat, repeated, among open, read, close and chdir.            *)
(***************************************************************************)
NextStat ==
    \/ Stat({p_a, p_z})
    \/ Lstat({r_a})
    \/ Open({p_a}, {O_RDONLY})
    \/ Read
    \/ Close
    \/ Chdir({p_t, p_d})

SpecStat == Init /\ [][NextStat]_vars

(***************************************************************************)
(* read on descriptors of files and of directories.                        *)
(***************************************************************************)
NextRead ==
    \/ Open({p_a, p_d, p_x}, {O_RDONLY})
    \/ Read
    \/ Fstat
    \/ Close

SpecRead == Init /\ [][NextRead]_vars

(***************************************************************************)
(* mmap on descriptors that were read from or not.                         *)
(***************************************************************************)
NextMmap ==
    \/ Open({p_a}, {O_RDONLY})
    \/ Read
    \/ Mmap
    \/ Close

SpecMmap == Init /\ [][NextMmap]_vars

(***************************************************************************)
(* The registry under its own operations, the descriptors coming from the  *)
(* intercepted open, openat and opendir.                                   *)
(***************************************************************************)
NextFs ==
    \/ Open({p_a, p_x}, {O_RDONLY})
    \/ Open({p_d}, {O_DIRECTORY})
    \/ OpenAt({AT_FDCWD}, {p_a}, {O_RDONLY})
    \/ Opendir({p_d})
    \/ FsRead
    \/ FsClose
    \/ FsFdopendir

SpecFs == Init /\ [][NextFs]_vars

(***************************************************************************)
(* open and stat beside openat and fstatat relative to the working         *)
(* directory, on absolute and relative paths, before and after chdir.      *)
(***************************************************************************)
AtPaths == {p_a, p_d, p_z, p_of, r_a, r_d}

NextAt ==
    \/ Chdir({p_t})
    \/ Open(AtPaths, {O_RDONLY, O_DIRECTORY})
    \/ OpenAt({AT_FDCWD}, AtPaths, {O_RDONLY, O_DIRECTORY})
    \/ Stat(AtPaths)
    \/ Fstatat({AT_FDCWD}, AtPaths)
    \/ Close

SpecAt == Init /\ [][NextAt]_vars

(***************************************************************************)
(* Relative paths, with the working directory unset, at /t and at /t/d.    *)
(***************************************************************************)
NextRel ==
    \/ Chdir({p_t, p_d})
    \/ Open({r_a, r_o}, {O_RDONLY, O_DIRECTORY})
    \/ Stat({r_a, r_x, r_up})
    \/ Lstat({r_d})
    \/ Opendir({r_d, r_a})
    \/ Mkdir({r_d, r_up, r_o})

SpecRel == Init /\ [][NextRel]_vars

(***************************************************************************)
(* Descriptors of files and of a directory, read, described and released.  *)
(***************************************************************************)
NextFstat ==
    \/ Open({p_a, p_x, p_s}, {O_RDONLY})
    \/ Open({p_d}, {O_DIRECTORY})
    \/ FsRead
    \/ FsFstat
    \/ FsClose

SpecFstat == Init /\ [][NextFstat]_vars

(***************************************************************************)
(* Directory streams of the registry: opened on path vectors of every      *)
(* kind, read, rewound and closed.                                         *)
(***************************************************************************)
TreeVecs == {components(p) : p \in {p_t, p_d, p_s, p_a, p_x, p_z}}

NextTree ==
    \/ Open({p_a, p_x}, {O_RDONLY})
    \/ Open({p_d}, {O_DIRECTORY})
    \/ FsOpendir(TreeVecs)
    \/ FsClose
    \/ Readdir
    \/ Rewinddir
    \/ Closedir

SpecTree == Init /\ [][NextTree]_vars

(***************************************************************************)
(* The classification of a path on tries of any shape, keys below other    *)
(* keys included.                                                          *)
(***************************************************************************)
MaxSegs == 2

\* the segments a, d, p
SegA == <<"a">>
SegD == <<"d">>
SegP == <<"p">>

\* the tries: every set of keys among a, a/d, a/p, d/a
KeySets == SUBSET {<<SegA>>, <<SegA, SegD>>, <<SegA, SegP>>, <<SegD, SegA>>}

\* the path vectors of up to MaxSegs segments
RECURSIVE VecsUpTo(_)
VecsUpTo(n) ==
    IF n = 0 THEN {<<>>}
    ELSE VecsUpTo(n - 1)
         \cup {Append(v, g) : v \in {w \in VecsUpTo(n - 1) : Len(w) = n - 1},
                              g \in {SegA, SegD, SegP}}

\* a classification that looks for keys below the path first
get_file_type_below_first(keys, search_path) ==
    LET entries == FilterEntries(SortVecs({k \in keys \ {search_path} :
                                              IsPrefixVec(search_path, k)}),
                                 Len(search_path) + 1, {})
    IN  IF entries # <<>>
        THEN Some([kind |-> "Directory", inode |-> get_inode_from_path(search_path),
                   entries |-> entries])
        ELSE IF search_path \in keys
        THEN Some([kind |-> "File", offset |-> 0,
                   inode |-> get_inode_from_path(search_path)])
        ELSE None

\* Fs::get_file_type_from_path on a trie with the given keys: exact_match
\* first, then the keys predictive_search yields, cut to the child depth; the
\* values of the keys play no part and are left out of the File record
get_file_type_in(keys, search_path) ==
    IF search_path \in keys
    THEN Some([kind |-> "File", offset |-> 0,
               inode |-> get_inode_from_path(search_path)])
    ELSE LET entries == FilterEntries(SortVecs({k \in keys :
                                                  IsPrefixVec(search_path, k)}),
                                      Len(search_path) + 1, {})
         IN  IF entries # <<>>
             THEN Some([kind |-> "Directory",
                        inode |-> get_inode_from_path(search_path),
                        entries |-> entries])
             ELSE None

\* a store over some trie and a path to classify
InitClassify ==
    /\ trie_init = TRUE
    /\ fd_map = <<>>
    /\ os_fds = StdFds
    /\ dirs = <<>>
    /\ working_dir = None
    /\ cache = <<>>
    /\ aborted = FALSE
    /\ delivered = <<>>
    /\ \E keys \in KeySets, path \in VecsUpTo(MaxSegs) :
          last = [op |-> "path", args |-> [keys |-> keys, path |-> path], ret |-> None,
                  err |-> NoErr, trace |-> <<>>, data |-> <<>>]
    /\ last_chdir = None
    /\ thread_context = None
    /\ ctx_depth = [t \in Threads |-> 0]
    /\ init_pc = [t \in Threads |-> "idle"]
    /\ handle = [t \in Threads |-> None]
    /\ trie_instance = None
    /\ loader_runs = 0
    /\ stat_seen = <<>>
    /\ calls = [t \in Threads |-> Idle]

\* the path is classified
Classify ==
    /\ last.op = "path"
    /\ last' = [last EXCEPT !.op = "get_file_type_from_path",
                            !.ret = get_file_type_in(last.args.keys, last.args.path)]
    /\ UNCHANGED <<trie_init, fd_map, os_fds, dirs, working_dir, cache, aborted,
                   delivered, last_chdir, stat_seen, ctx_vars, once_vars, calls>>

SpecClassify == InitClassify /\ [][Classify]_vars

(***************************************************************************)
(* The stat buffer of files of many sizes, around the multiples of 512,    *)
(* and of a directory.                                                     *)
(***************************************************************************)
MaxSectors == 17

\* the sizes: each multiple of 512 up to MaxSectors * 512, and its neighbours
FileSizes == {n \in 0..(MaxSectors * 512 + 1) :
                 \E k \in 0..MaxSectors, r \in {-1, 0, 1} : n = k * 512 + r}

\* a content of n bytes
Zeros(n) == [i \in 1..n |-> 0]

\* the file types: a file of each size, and the directory /t/d
FileTypes ==
    {[kind |-> "File", file |-> Zeros(n), offset |-> 0,
      inode |-> get_inode_from_path(components(p_a))] : n \in FileSizes}
    \cup {Unwrap(get_file_type_from_path(components(p_d)))}

\* a store and a file type to describe
InitStatBuf ==
    /\ trie_init = TRUE
    /\ fd_map = <<>>
    /\ os_fds = StdFds
    /\ dirs = <<>>
    /\ working_dir = None
    /\ cache = <<>>
    /\ aborted = FALSE
    /\ delivered = <<>>
    /\ \E t \in FileTypes :
          last = [op |-> "file_type",
                  args |-> [kind |-> t.kind,
                            size |-> IF t.kind = "File" THEN Len(t.file) ELSE 0,
                            file_type |-> t],
                  ret |-> 0, err |-> NoErr, trace |-> <<>>, data |-> <<>>]
    /\ last_chdir = None
    /\ thread_context = None
    /\ ctx_depth = [t \in Threads |-> 0]
    /\ init_pc = [t \in Threads |-> "idle"]
    /\ handle = [t \in Threads |-> None]
    /\ trie_instance = None
    /\ loader_runs = 0
    /\ stat_seen = <<>>
    /\ calls = [t \in Threads |-> Idle]

\* the stat buffer is written
GetStat ==
    /\ last.op = "file_type"
    /\ last' = [last EXCEPT !.op = "get_stat_from_file_type",
                            !.data = get_stat_from_file_type(last.args.file_type)]
    /\ UNCHANGED <<trie_init, fd_map, os_fds, dirs, working_dir, cache, aborted,
                   delivered, last_chdir, stat_seen, ctx_vars, once_vars, calls>>

SpecStatBuf == InitStatBuf /\ [][GetStat]_vars

(***************************************************************************)
(* The loader on bundles of any shape: PATHS holds the first paths of a    *)
(* list, FILES_SIZES is an array of some length lying in memory, followed  *)
(* by whatever the linker put behind it.                                   *)
(***************************************************************************)
MaxPaths == 2

\* PATHS of a bundle with the first k paths of /t/1, /t/2, ...
RECURSIVE PathsBlob(_)
PathsBlob(k) ==
    IF k = 0 THEN <<>>
    ELSE PathsBlob(k - 1) \o <<"/", "t", "/", ToString(k), NUL>>

\* initialize_fs on the symbols of a bundle: paths is PATHS, files is FILES,
\* mem is the memory from &FILES_SIZES on, of which the array takes the first
\* cells only; from_raw_parts(&FILES_SIZES, n + 1) reads n + 1 cells of it;
\* files[range] panics on a range that runs backwards or past the end
initialize_fs(paths, files, mem) ==
    LET split == SplitNul(paths, <<>>)
        n == Len(split)
        files_sizes == SubSeq(mem, 1, n + 1)
    IN  IF \E i \in 1..n : \/ files_sizes[i] > files_sizes[i + 1]
                            \/ files_sizes[i + 1] > Len(files)
        THEN [ret |-> "panic", entries |-> <<>>]
        ELSE [ret |-> "Fs",
              entries |-> [i \in 1..n |->
                             [path |-> components(split[i]),
                              file |-> SubSeq(files, files_sizes[i] + 1,
                                              files_sizes[i + 1])]]]

\* the bundles: up to MaxPaths paths, the memory at FILES_SIZES, and how many
\* of its cells the array has
Bundles ==
    [paths : {PathsBlob(k) : k \in 0..MaxPaths},
     mem : [1..(MaxPaths + 1) -> 0..MaxPaths],
     sizes_len : 0..(MaxPaths + 1)]

\* a process with its bundle linked in, nothing loaded yet
InitLoad ==
    /\ trie_init = FALSE
    /\ fd_map = <<>>
    /\ os_fds = StdFds
    /\ dirs = <<>>
    /\ working_dir = None
    /\ cache = <<>>
    /\ aborted = FALSE
    /\ delivered = <<>>
    /\ \E b \in Bundles :
          last = [op |-> "bundle", args |-> b, ret |-> 0, err |-> NoErr,
                  trace |-> <<>>, data |-> <<>>]
    /\ last_chdir = None
    /\ thread_context = None
    /\ ctx_depth = [t \in Threads |-> 0]
    /\ init_pc = [t \in Threads |-> "idle"]
    /\ handle = [t \in Threads |-> None]
    /\ trie_instance = None
    /\ loader_runs = 0
    /\ stat_seen = <<>>
    /\ calls = [t \in Threads |-> Idle]

\* the first intercepted call runs initialize_fs; a panic ends the process
Load ==
    /\ last.op = "bundle"
    /\ LET r == initialize_fs(last.args.paths, FILES, last.args.mem) IN
          /\ last' = [op |-> "initialize_fs", args |-> last.args, ret |-> r.ret,
                      err |-> NoErr, trace |-> <<>>, data |-> r.entries]
          /\ trie_init' = (r.ret = "Fs")
          /\ aborted' = (r.ret = "panic")
    /\ UNCHANGED <<fd_map, os_fds, dirs, working_dir, cache, delivered, last_chdir,
                   stat_seen, ctx_vars, once_vars, calls>>

SpecLoad == InitLoad /\ [][Load]_vars

(***************************************************************************)
(* Threads inside read and close at the same time, beside open, opendir    *)
(* and closedir.                                                           *)
(***************************************************************************)
\* the two threads that are inside read and close at the same time
Workers == {1, 2}

NextConc ==
    \/ Open({p_a}, {O_RDONLY})
    \/ \E t \in Workers : ReadEnter(t)
    \/ \E t \in Workers : ReadLeave(t)
    \/ \E t \in Workers : CloseEnter(t)
    \/ \E t \in Workers : CloseRelease(t)
    \/ \E t \in Workers : CloseLeave(t)

SpecConc == Init /\ [][NextConc]_vars

(***************************************************************************)
(* Path calls of one thread beside the chdir of another, into, inside and  *)
(* out of the bundle.                                                      *)
(***************************************************************************)
NextRace ==
    \/ Chdir({p_t, p_d, p_o})
    \/ PathEnter(1, {r_a})
    \/ PathLeave(1)

SpecRace == Init /\ [][NextRace]_vars

(***************************************************************************)
(* The lock steps of the calls of two threads, interleaved; a thread that  *)
(* can take its next step takes it.                                        *)
(***************************************************************************)
NextLocks ==
    \/ \E t \in Workers : LockEnter(t)
    \/ \E t \in Workers : LockStep(t)

SpecLocks == Init /\ [][NextLocks]_vars

SpecLocksLive == SpecLocks /\ \A t \in Workers : WF_vars(LockStep(t))

(***************************************************************************)
(* The life of the descriptors: opened, handed to streams, closed once by  *)
(* the application, or left to the drop of the store.                      *)
(***************************************************************************)
\* nothing is called on a store after its drop
Alive == last.op # "drop"

NextLife ==
    \/ Alive /\ Open({p_a, p_d}, {O_RDONLY})
    \/ Alive /\ OpenAt({AT_FDCWD}, {p_x}, {O_RDONLY})
    \/ Alive /\ Opendir({p_d, p_a})
    \/ Alive /\ FdopendirOnce
    \/ Alive /\ CloseOnce
    \/ Alive /\ Closedir
    \/ Alive /\ Drop

SpecLife == Init /\ [][NextLife]_vars

(***************************************************************************)
(* mkdir on directories, files and absent paths, beside open, stat, close. *)
(***************************************************************************)
NextMkdir ==
    \/ Mkdir({p_d, p_a, p_z, p_o, r_d, r_a})
    \/ Chdir({p_t})
    \/ Open({p_a, p_d}, {O_RDONLY})
    \/ Stat({p_a})
    \/ Close

SpecMkdir == Init /\ [][NextMkdir]_vars

(***************************************************************************)
(* Properties of open, read and close.                                     *)
(***************************************************************************)
\* the path strings of the bundle
BundledPaths == {splited_path_array[i] : i \in 1..Len(splited_path_array)}

RECURSIVE JoinSegments(_)
JoinSegments(segs) ==
    IF segs = <<>> THEN <<>>
    ELSE IF Len(segs) = 1 THEN segs[1]
    ELSE segs[1] \o <<"/">> \o JoinSegments(Tail(segs))

\* the string of an absolute path vector ("/" first)
JoinPath(vec) == <<"/">> \o JoinSegments(Tail(vec))

\* the last call was a read on a descriptor registered as a File
LastReadOfFile ==
    /\ last.op = "read"
    /\ last.args.registered
    /\ last.args.fd \in DOMAIN fd_map
    /\ fd_map[last.args.fd].kind = "File"

\* C1: open of a bundled file path gives a registered descriptor >= 0; a read
\* with a buffer of at least one byte returns 0 exactly at the end of the
\* file; and once a read returned 0, the bytes the reads on that descriptor
\* returned since open, concatenated, are the bundled content of the path.
C1_OpenReadToEnd ==
    /\ (/\ last.op = "open"
        /\ last.args.path \in BundledPaths
        /\ ~HasFlag(last.args.oflag, O_DIRECTORY))
       => (~aborted /\ last.ret >= 0 /\ last.ret \in DOMAIN fd_map)
    /\ LastReadOfFile
       => (/\ ~aborted
           /\ (last.ret = 0) <=> (last.args.offset = Len(fd_map[last.args.fd].file)))
    /\ \A fd \in DOMAIN delivered :
          (delivered[fd].path \in TrieKeys /\ delivered[fd].eof)
          => delivered[fd].bytes = TrieValue(delivered[fd].path)

\* C1 witness: the 3-byte file /t/a was read to the end in more than one read
C1_Witness ==
    /\ LastReadOfFile
    /\ last.ret = 0
    /\ last.args.count < 3
    /\ delivered[last.args.fd].path = components(p_a)
    /\ delivered[last.args.fd].bytes = <<11, 12, 13>>

\* C2: every File entry has 0 <= offset <= length; a read returns the bytes
\* content[offset .. offset+n) for the offset it found and leaves the offset
\* at offset+n; the bytes read on a descriptor so far are content[0 .. offset),
\* so never more than the file holds.
C2_ReadRanges ==
    /\ \A fd \in DOMAIN fd_map :
          fd_map[fd].kind = "File"
          => (/\ 0 <= fd_map[fd].offset
              /\ fd_map[fd].offset <= Len(fd_map[fd].file)
              /\ delivered[fd].bytes = SubSeq(fd_map[fd].file, 1, fd_map[fd].offset))
    /\ LastReadOfFile
       => (/\ ~aborted
           /\ last.ret >= 0
           /\ fd_map[last.args.fd].offset = last.args.offset + last.ret
           /\ last.data = SubSeq(fd_map[last.args.fd].file,
                                 last.args.offset + 1, last.args.offset + last.ret))

\* C2 witness: a read that started past byte 0 and returned bytes
C2_Witness ==
    /\ LastReadOfFile
    /\ last.args.offset > 0
    /\ last.ret > 0

\* C5: the st_size stat reports for a bundled file is the number of bytes the
\* reads on a descriptor of it returned from open until a read returned 0.
C5_StatSizeIsReadTotal ==
    \A fd \in DOMAIN delivered :
        (delivered[fd].path \in TrieKeys /\ delivered[fd].eof)
        => LET o == stat_from_fs(St, "stat", JoinPath(delivered[fd].path), FALSE, -1)
           IN  /\ o.ret = 0
               /\ o.data.st_size = Len(delivered[fd].bytes)

\* C5 witness: a non-empty file read to the end while its stat is cached
C5_Witness ==
    \E fd \in DOMAIN delivered :
        /\ delivered[fd].eof
        /\ Len(delivered[fd].bytes) = 3
        /\ delivered[fd].path \in DOMAIN cache

IsReal(e) == e.ev = "real"

\* C9: close makes exactly one real close, on the same descriptor, and returns
\* its result; for a registered descriptor the registry release comes first;
\* afterwards the descriptor is not registered.
C9_CloseReleasesThenCloses ==
    last.op = "close"
    => LET real == SelectSeq(last.trace, IsReal) IN
       /\ Len(real) = 1
       /\ real[1].fn = "close"
       /\ real[1].args = <<last.args.fd>>
       /\ last.ret = real[1].ret
       /\ last.args.registered => last.trace = <<Release(last.args.fd), real[1]>>
       /\ ~last.args.registered => last.trace = real
       /\ last.args.fd \notin DOMAIN fd_map

\* C9 witness: a registered descriptor was closed
C9_Witness ==
    /\ last.op = "close"
    /\ last.args.registered
    /\ last.ret = 0

(***************************************************************************)
(* Properties of directory streams.                                        *)
(***************************************************************************)
\* the names of the immediate children of a directory, from the bundle
Children(dir) ==
    {k[Len(dir) + 1] : k \in {x \in TrieKeys : IsPrefixVec(dir, x) /\ Len(x) > Len(dir)}}

\* the streams whose descriptor is registered as a Directory
LiveDirs == {d \in DOMAIN dirs : /\ dirs[d].fd \in DOMAIN fd_map
                                 /\ fd_map[dirs[d].fd].kind = "Directory"}

\* C3: the entries readdir returned on a stream since opendir (or rewinddir)
\* name immediate children of the directory, no child twice, each with type
\* DT_REG for a bundled file and DT_DIR for a directory; when readdir has
\* returned the end sentinel every child was returned.
C3_ReaddirEachChildOnce ==
    \A d \in LiveDirs :
        LET dir  == delivered[dirs[d].fd].path
            seen == dirs[d].seen
        IN  /\ \A i, j \in 1..Len(seen) : i # j => seen[i].d_name # seen[j].d_name
            /\ \A i \in 1..Len(seen) :
                  /\ seen[i].d_name \in Children(dir)
                  /\ seen[i].d_type = IF Append(dir, seen[i].d_name) \in TrieKeys
                                      THEN DT_REG ELSE DT_DIR
            /\ dirs[d].ended => {seen[i].d_name : i \in 1..Len(seen)} = Children(dir)

(***************************************************************************)
(* Properties of routing, metadata and the working directory.              *)
(***************************************************************************)
\* what the bundle holds at a path vector
Kind(vec) ==
    IF vec \in TrieKeys THEN "file"
    ELSE IF \E k \in TrieKeys : IsPrefixVec(vec, k) /\ Len(k) > Len(vec) THEN "dir"
    ELSE "absent"

\* the arguments the caller passed, as the real function takes them
CallerArgs(c) ==
    CASE c.op = "open" -> <<c.args.path, c.args.oflag, c.args.mode>>
      [] c.op = "openat" -> <<c.args.dirfd, c.args.path, c.args.oflag, c.args.mode>>
      [] c.op \in {"stat", "lstat"} -> <<c.args.path, c.args.stat_null>>
      [] c.op = "fstatat" ->
            <<c.args.dirfd, c.args.path, c.args.stat_null, c.args.flags>>
      [] c.op = "opendir" -> <<c.args.path>>
      [] c.op = "mkdir" -> <<c.args.path, c.args.mode>>
      [] c.op = "realpath" -> <<c.args.path, c.args.resolved_null>>

\* call c made exactly one real call, its own function with the caller's
\* arguments, and returned what that call returned
ForwardedOnce(c) ==
    /\ Len(c.trace) = 1
    /\ c.trace[1].ev = "real"
    /\ c.trace[1].fn = c.op
    /\ c.trace[1].args = CallerArgs(c)
    /\ c.ret = IF c.op \in {"opendir", "realpath"}
               THEN RealPtr(c.trace[1].ret) ELSE c.trace[1].ret

PathOps == {"open", "openat", "stat", "lstat", "fstatat", "opendir", "mkdir", "realpath"}

\* C4: a path call on an absolute path that does not start with WD makes
\* exactly one real call, with the caller's arguments, returns its result and
\* leaves the registry and the stat cache as they were, with the working
\* directory set or unset.
C4_OutsidePathsForwarded ==
    [][(last'.op \in PathOps /\ Outside(last'.args.path))
       => (/\ ForwardedOnce(last')
           /\ fd_map' = fd_map
           /\ cache' = cache)]_vars

\* C4 witness: an openat on /o/f answered by the real openat while the
\* working directory is set and a descriptor is registered
C4_Witness ==
    /\ last.op = "openat"
    /\ last.args.path = p_of
    /\ last.ret = RealFd
    /\ IsSome(working_dir)
    /\ fd_map # <<>>

\* C6: open with O_DIRECTORY on a virtual path: -1 and ENOTDIR for a bundled
\* file, -1 and ENOENT for an absent path, both with the registry unchanged;
\* for a directory a descriptor that was not registered and now is, as a
\* Directory, the other entries unchanged.
C6_OpenDirectoryFlag ==
    [][(/\ last'.op = "open"
        /\ HasFlag(last'.args.oflag, O_DIRECTORY)
        /\ Virtual(last'.args.path, working_dir))
       => LET kind == Kind(Target(last'.args.path, working_dir)) IN
          /\ kind = "file" => (last'.ret = -1 /\ last'.err = ENOTDIR /\ fd_map' = fd_map)
          /\ kind = "absent" => (last'.ret = -1 /\ last'.err = ENOENT /\ fd_map' = fd_map)
          /\ kind = "dir" => (/\ last'.ret >= 0
                              /\ last'.ret \notin DOMAIN fd_map
                              /\ DOMAIN fd_map' = DOMAIN fd_map \cup {last'.ret}
                              /\ fd_map'[last'.ret].kind = "Directory"
                              /\ \A fd \in DOMAIN fd_map : fd_map'[fd] = fd_map[fd])]_vars

\* C6 witness: open with O_DIRECTORY failed with ENOTDIR while a descriptor
\* is registered
C6_Witness ==
    /\ last.op = "open"
    /\ HasFlag(last.args.oflag, O_DIRECTORY)
    /\ last.err = ENOTDIR
    /\ fd_map # <<>>

\* the stat buffer b describes what the bundle holds at vec
Filled(b, vec) ==
    /\ DOMAIN b # {}
    /\ b.st_ino = get_inode_from_path(vec)
    /\ BitAnd(b.st_mode, S_IFMT) = IF Kind(vec) = "file" THEN S_IFREG ELSE S_IFDIR
    /\ Kind(vec) = "file" => b.st_size = Len(TrieValue(vec))

\* C7: stat and lstat on a virtual path give -1 and EFAULT for a null buffer,
\* -1 and ENOENT for a path that is neither file nor directory, else 0 and
\* the buffer filled; fstat on a registered descriptor gives -1 and EFAULT
\* for a null buffer, else 0 and the buffer filled.
C7_StatErrors ==
    [][/\ (last'.op \in {"stat", "lstat"} /\ Virtual(last'.args.path, working_dir))
          => LET vec == Target(last'.args.path, working_dir) IN
             IF last'.args.stat_null THEN last'.ret = -1 /\ last'.err = EFAULT
             ELSE IF Kind(vec) = "absent" THEN last'.ret = -1 /\ last'.err = ENOENT
             ELSE last'.ret = 0 /\ Filled(last'.data, vec)
       /\ (last'.op = "fstat" /\ last'.args.fd \in DOMAIN fd_map)
          => IF last'.args.stat_null THEN last'.ret = -1 /\ last'.err = EFAULT
             ELSE last'.ret = 0 /\ Filled(last'.data, delivered[last'.args.fd].path)]_vars

\* C7 witness: a stat with a null buffer on a relative path of a directory
C7_Witness ==
    /\ last.op = "stat"
    /\ last.args.path = r_d
    /\ last.args.stat_null
    /\ last.err = EFAULT
    /\ IsSome(working_dir)

\* C8: open and openat with O_CREAT or O_TMPFILE in the flags make exactly
\* one real call with the caller's arguments, return its result and add no
\* registry entry, whatever the path.
C8_CreateAlwaysForwarded ==
    [][(last'.op \in {"open", "openat"} /\ is_create_flag(last'.args.oflag))
       => (/\ ForwardedOnce(last')
           /\ DOMAIN fd_map' \subseteq DOMAIN fd_map)]_vars

\* the absolute path a chdir argument names, given the working directory
\* the call found
ChdirTarget(c) ==
    IF Absolute(c.path) THEN c.path
    ELSE JoinPath(Normalize(components(Unwrap(c.wd)), components(c.path)))

\* the chdir named a directory of the bundle under WD
ToVirtualDir(c) ==
    /\ Absolute(c.path) \/ IsSome(c.wd)
    /\ StartsWith(ChdirTarget(c), WD)
    /\ Kind(components(ChdirTarget(c))) = "dir"

\* C10: getcwd(null, 0), when the last change of the working directory was a
\* chdir(d) to a virtual directory, returns d if d is absolute and the
\* canonical absolute path d resolved to if d is relative.
C10_ChdirGetcwd ==
    (/\ last.op = "getcwd"
     /\ IsSome(last_chdir)
     /\ ToVirtualDir(Unwrap(last_chdir)))
    => last.ret = StrPtr(ChdirTarget(Unwrap(last_chdir)))

\* C11: a chdir on a path that resolves to a virtual directory returns 0,
\* sets the working directory to the resolved path and makes no real call.
C11_VirtualChdirSucceeds ==
    [][(last'.op = "chdir" /\ ToVirtualDir(last'.args))
       => (/\ last'.ret = 0
           /\ working_dir' = Some(ChdirTarget(last'.args))
           /\ last'.trace = <<>>)]_vars

\* C12: a chdir on a path that does not resolve to a virtual directory makes
\* exactly one real chdir with the caller's path and returns its result; the
\* working directory is cleared when that result is 0 and kept otherwise.
C12_OtherChdirForwarded ==
    [][(last'.op = "chdir" /\ ~ToVirtualDir(last'.args))
       => (/\ ~aborted'
           /\ Len(last'.trace) = 1
           /\ last'.trace[1].ev = "real"
           /\ last'.trace[1].fn = "chdir"
           /\ last'.trace[1].args = <<last'.args.path>>
           /\ last'.ret = last'.trace[1].ret
           /\ working_dir' = IF last'.ret = 0 THEN None ELSE working_dir)]_vars

\* C13: mkdir on a virtual path returns 0 when the path is a directory of
\* the store and -1 with ENOENT otherwise, a bundled file included; the
\* registry is left as it was.
C13_MkdirOnlyExistingDir ==
    [][(last'.op = "mkdir" /\ Virtual(last'.args.path, working_dir))
       => (/\ IF Kind(Target(last'.args.path, working_dir)) = "dir"
              THEN last'.ret = 0
              ELSE last'.ret = -1 /\ last'.err = ENOENT
           /\ fd_map' = fd_map)]_vars

\* an absolute path with "." and ".." resolved lexically
Resolved(path) == Normalize(<< <<"/">> >>, Tail(components(path)))

\* C14: for an absolute path routed to the store, the expanded path (what
\* realpath hands back) is the path with "." and ".." resolved, and a stat
\* finds the entry that the resolved path names.
C14_AbsoluteExpandedResolved ==
    /\ (/\ last.op = "realpath"
        /\ Absolute(last.args.path)
        /\ StartsWith(last.args.path, WD))
       => last.ret = StrPtr(JoinPath(Resolved(last.args.path)))
    /\ (/\ last.op = "stat"
        /\ Absolute(last.args.path)
        /\ StartsWith(last.args.path, WD)
        /\ ~last.args.stat_null
        /\ Kind(Resolved(last.args.path)) # "absent")
       => last.ret = 0

\* the left fold the components of a joined path make over a list of
\* segments: ".." drops the last segment, not the root; "." and "/" do nothing
RECURSIVE FoldOver(_, _)
FoldOver(segs, comps) ==
    IF comps = <<>> THEN segs
    ELSE IF comps[1] = <<".", ".">>
    THEN FoldOver(IF segs = <<>> \/ segs = << <<"/">> >> THEN segs
                  ELSE SubSeq(segs, 1, Len(segs) - 1),
                  Tail(comps))
    ELSE IF comps[1] = <<".">> \/ comps[1] = <<"/">> THEN FoldOver(segs, Tail(comps))
    ELSE FoldOver(Append(segs, comps[1]), Tail(comps))

\* no "." and no ".." among the components
DotFree(comps) ==
    \A i \in 1..Len(comps) : comps[i] # <<".">> /\ comps[i] # <<".", ".">>

\* an absolute path written as its components joined by single slashes
Canonical(path) ==
    /\ Absolute(path)
    /\ DotFree(components(path))
    /\ path = JoinPath(components(path))

\* C15: canonicalize_path(W, P) is the left fold of the components of P over
\* W; for an absolute W without "." and ".." the result is absolute, has no
\* "." or ".." component and starts at the root; the three examples hold.
C15_CanonicalizeIsFold ==
    last.op = "canonicalize_path" =>
        LET W == last.args.base
            P == last.args.join_path
            R == last.ret
        IN  /\ components(R) = FoldOver(components(W), components(P))
            /\ Canonical(W) => Canonical(R)
            /\ (W = <<"/", "a", "/", "b">> /\ P = <<".", ".", "/", "c", "/", ".", "/", "d">>)
               => R = <<"/", "a", "/", "c", "/", "d">>
            /\ (W = <<"/", "a">> /\ P = <<".", ".", "/", ".", ".", "/", "b">>)
               => R = <<"/", "b">>
            /\ (W = <<"/", "h", "o", "m", "e">> /\ P = <<"/", "e", "t", "c", "/", "c">>)
               => R = <<"/", "h", "o", "m", "e", "/", "e", "t", "c", "/", "c">>

\* C15 witness: ../../b joined to /a stops at the root and gives /b
C15_Witness ==
    /\ last.op = "canonicalize_path"
    /\ last.args.base = <<"/", "a">>
    /\ last.args.join_path = <<".", ".", "/", ".", ".", "/", "b">>
    /\ last.ret = <<"/", "b">>

\* the components of a path but the last, joined again
AllButLast(path) ==
    LET c == components(path) IN
    IF Absolute(path) THEN JoinPath(SubSeq(c, 1, Len(c) - 1))
    ELSE JoinSegments(SubSeq(c, 1, Len(c) - 1))

\* "/" and the empty path have no parent
HasParent(path) == Len(components(path)) > (IF Absolute(path) THEN 1 ELSE 0)

\* C16: kompo_fs_set_entrypoint_dir sets the working directory to the parent
\* of a non-null path that has one (/app/bin/main.rb gives /app/bin, /main.rb
\* gives /) and leaves it as it was for a null path.
C16_EntrypointParent ==
    [][(last'.op = "kompo_fs_set_entrypoint_dir")
       => LET e == last'.args.path IN
          /\ ~IsSome(e) => working_dir' = working_dir
          /\ (IsSome(e) /\ HasParent(Unwrap(e)))
             => working_dir' = Some(AllButLast(Unwrap(e)))
          /\ e = Some(e_app) => working_dir' = Some(<<"/", "a", "p", "p", "/", "b", "i", "n">>)
          /\ e = Some(e_root) => working_dir' = Some(<<"/">>)]_vars

\* C16 witness: /main.rb was given after /app/bin/main.rb, the working
\* directory is the root
C16_Witness ==
    /\ last.op = "kompo_fs_set_entrypoint_dir"
    /\ last.args.path = Some(e_root)
    /\ working_dir = Some(<<"/">>)

\* the flag the map holds for a thread, false when it holds none
FlagOf(tc, t) == IsSome(tc) /\ t \in DOMAIN Unwrap(tc) /\ Unwrap(tc)[t]

\* C17: the flag of a thread is true while a context block of the thread
\* runs, it is false once the invocation has returned and no block of the
\* thread runs, for a return and an unwind alike, and a context invocation of
\* one thread leaves the flags of the other threads as they were.
C17_FlagScopedToBlock ==
    [][/\ \A t \in Threads : ctx_depth'[t] > 0 => FlagOf(thread_context', t)
       /\ (last'.op = "context_end" /\ ctx_depth'[last'.args.thread] = 0)
          => ~FlagOf(thread_context', last'.args.thread)
       /\ last'.op \in {"context", "context_end"}
          => \A u \in Threads \ {last'.args.thread} :
                FlagOf(thread_context', u) = FlagOf(thread_context, u)]_vars

\* C18: context? never aborts and returns the flag of the calling thread,
\* false for a thread that never entered a context.
C18_IsContextTotal ==
    [][last'.op = "context?"
       => (/\ ~aborted'
           /\ last'.ret = IF FlagOf(thread_context, last'.args.thread)
                          THEN Ruby.TRUE ELSE Ruby.FALSE)]_vars

\* C19: the bundle loader runs at most once, whatever the interleaving of
\* the first calls, it has run once TRIE is set, and every thread that got
\* the store holds the one instance TRIE holds, the one whose registry the
\* open descriptors are in.
C19_StoreBuiltOnce ==
    /\ loader_runs <= 1
    /\ IsSome(trie_instance) <=> loader_runs = 1
    /\ \A t \in Threads : IsSome(handle[t]) => handle[t] = trie_instance
    /\ fd_map # <<>> => IsSome(trie_instance)

\* C19 witness: two threads reached get_or_init before TRIE was set, one
\* ran the loader, the other waited, and both hold the same instance
C19_Witness ==
    \E t, u \in Threads :
        /\ t # u
        /\ last.op = "get_or_init"
        /\ last.args.thread = u
        /\ init_pc[u] = "idle"
        /\ loader_runs = 1
        /\ IsSome(handle[t])
        /\ handle[u] = handle[t]
        /\ \E w \in Threads \ {t, u} : init_pc[w] = "waiting"

\* C20: a stat or lstat of a virtual path that an earlier stat or lstat
\* found returns 0 and the buffer that one returned, whatever was called in
\* between; every buffer in the cache is the one the store computes for its
\* path; a failed lookup leaves the cache as it was.
C20_StatRepeatable ==
    [][/\ (/\ last'.op \in {"stat", "lstat"}
           /\ Virtual(last'.args.path, working_dir)
           /\ ~last'.args.stat_null)
          => LET key == Target(last'.args.path, working_dir) IN
             /\ key \in DOMAIN stat_seen
                => (last'.ret = 0 /\ last'.data = stat_seen[key].buf)
             /\ last'.ret # 0 => cache' = cache
       /\ \A k \in DOMAIN cache' :
             IsSome(Fs_stat(k)) /\ cache'[k] = Unwrap(Fs_stat(k))]_vars

\* C20 witness: lstat of the relative a under /t returned the buffer the
\* first stat of /t/a had returned, after a descriptor on the file was read
\* to its end and a chdir was made
C20_Witness ==
    /\ last.op = "lstat"
    /\ last.args.path = r_a
    /\ working_dir = Some(p_t)
    /\ last.ret = 0
    /\ stat_seen[components(p_a)].by = "stat"
    /\ last.data = stat_seen[components(p_a)].buf
    /\ last.data.st_size = 3
    /\ \E fd \in DOMAIN delivered : delivered[fd].eof
    /\ \E fd \in DOMAIN delivered : delivered[fd].eof

\* C21: a read on a registered descriptor of a Directory returns an error
\* to the caller (-1 with errno set), does not end the process and leaves
\* the registry as it was.
C21_ReadDirectoryIsError ==
    [][(/\ last'.op = "read"
        /\ last'.args.registered
        /\ fd_map[last'.args.fd].kind = "Directory")
       => (/\ ~aborted'
           /\ last'.ret = -1
           /\ last'.err # NoErr
           /\ fd_map' = fd_map)]_vars

\* the calls that return an int, and those that return a pointer
IntOps == {"open", "openat", "stat", "lstat", "fstat", "fstatat", "read", "chdir", "mkdir"}
PtrOps == {"opendir", "fdopendir"}

\* the last call was answered by the virtual store, with the failure value
FailedInStore(c) ==
    /\ c.op \in IntOps \cup PtrOps
    /\ c.trace = <<>>
    /\ IF c.op \in IntOps THEN c.ret = -1 ELSE c.ret = NullPtr

\* C22: an intercepted call that fails inside the virtual store (it made no
\* real call and returned -1 or null) has set errno.
C22_FailureSetsErrno ==
    [][(~aborted' /\ FailedInStore(last')) => last'.err # NoErr]_vars

\* C23: mmap on a registered File descriptor, when the anonymous mapping
\* was obtained, returns that mapping and its first min(length, file size)
\* bytes are the bytes of the file from byte 0, whatever the read offset of
\* the descriptor; a MAP_FAILED of its own comes with errno EBADF.
C23_MmapHoldsFile ==
    [][(/\ last'.op = "mmap"
        /\ last'.args.registered
        /\ fd_map[last'.args.fd].kind = "File"
        /\ last'.trace[1].ret # MAP_FAILED)
       => LET file == fd_map[last'.args.fd].file
              n == Min(last'.args.length, Len(file))
          IN  /\ ~aborted'
              /\ IF last'.ret = MAP_FAILED THEN last'.err = EBADF
                 ELSE /\ last'.ret = Mapping
                      /\ \A i \in 1..n : last'.data[i] = file[i]]_vars

\* the descriptors the real close was called on during call c, in order
RECURSIVE RealCloses(_)
RealCloses(trace) ==
    IF trace = <<>> THEN <<>>
    ELSE IF trace[1].ev = "real" /\ trace[1].fn = "close"
    THEN <<trace[1].args[1]>> \o RealCloses(Tail(trace))
    ELSE RealCloses(Tail(trace))

\* a sequence without repetition
NoRepeat(q) == \A i, j \in 1..Len(q) : q[i] = q[j] => i = j

\* the elements of a sequence
Range(q) == {q[i] : i \in 1..Len(q)}

\* C24: when the application closes each descriptor and stream once, the
\* OS descriptors made by virtual opens are open exactly while registered; a
\* close or closedir of a registered descriptor calls the real close once,
\* on that descriptor; the drop calls it once on each registered descriptor
\* and on no other; an open calls it on none.
C24_ClosedExactlyOnce ==
    [][/\ os_fds' \ StdFds = DOMAIN fd_map'
       /\ (last'.op \in {"close", "closedir"} /\ last'.args.fd \in DOMAIN fd_map)
          => (/\ RealCloses(last'.trace) = <<last'.args.fd>>
              /\ last'.args.fd \notin os_fds')
       /\ last'.op = "drop"
          => (/\ Range(RealCloses(last'.trace)) = DOMAIN fd_map
              /\ NoRepeat(RealCloses(last'.trace))
              /\ os_fds' = os_fds \ DOMAIN fd_map)
       /\ last'.op \in {"open", "openat", "opendir", "fdopendir"}
          => RealCloses(last'.trace) = <<>>]_vars

\* C24 witness: the store was dropped while a file descriptor and the
\* descriptor of a stream were registered; both are closed now
C24_Witness ==
    /\ last.op = "drop"
    /\ Cardinality(last.args.keys) = 2
    /\ \E d \in DOMAIN dirs : dirs[d].fd \in last.args.keys
    /\ os_fds = StdFds

PathCount(b) == Len(SplitNul(b.paths, <<>>))

\* C26: loading a bundle whose path count differs from the length of
\* FILES_SIZES minus one ends in a Malformed Bundle error and produces no store.
C26_MalformedBundle ==
    (/\ last.op = "initialize_fs"
     /\ PathCount(last.args) # last.args.sizes_len - 1)
    => (last.ret = "MalformedBundle" /\ ~trie_init)

\* C27: Fs::read on a registered file returns Some(min(rest, buffer length)),
\* hands out that many bytes from the offset on and advances the offset by as
\* many, which is Some(0) and no change at the end of the file; on a
\* descriptor that is not registered it returns None and changes nothing.
C27_RegistryRead ==
    [][last'.op = "Fs::read"
       => LET fd == last'.args.fd IN
          IF fd \notin DOMAIN fd_map
          THEN /\ ~aborted'
               /\ last'.ret = None
               /\ last'.data = <<>>
               /\ fd_map' = fd_map /\ os_fds' = os_fds /\ dirs' = dirs
          ELSE fd_map[fd].kind = "File"
               => LET file == fd_map[fd].file
                      offset == fd_map[fd].offset
                      n == Min(Len(file) - offset, last'.args.buf_len)
                  IN  /\ ~aborted'
                      /\ last'.ret = Some(n)
                      /\ last'.data = SubSeq(file, offset + 1, offset + n)
                      /\ fd_map' = [fd_map EXCEPT ![fd].offset = offset + n]
                      /\ os_fds' = os_fds /\ dirs' = dirs]_vars

\* C27 witness: a read with a buffer larger than the rest of the file
\* returned the rest, short of the buffer, from an offset inside the file
C27_Witness ==
    /\ last.op = "Fs::read"
    /\ last.args.fd \in DOMAIN fd_map
    /\ fd_map[last.args.fd].kind = "File"
    /\ last.ret = Some(1)
    /\ last.args.buf_len = MaxBuf
    /\ fd_map[last.args.fd].offset = Len(fd_map[last.args.fd].file)

\* C28: Fs::close returns 0 for every descriptor; the registry afterwards is
\* the registry before without the entry of that descriptor, every other
\* entry as it was; on a descriptor that is not registered, as after a first
\* close, nothing changes.
C28_RegistryClose ==
    [][last'.op = "Fs::close"
       => LET fd == last'.args.fd IN
          /\ ~aborted'
          /\ last'.ret = 0
          /\ DOMAIN fd_map' = (DOMAIN fd_map) \ {fd}
          /\ \A g \in DOMAIN fd_map' : fd_map'[g] = fd_map[g]
          /\ (last.op = "Fs::close" /\ last.args.fd = fd) => fd_map' = fd_map]_vars

\* C28 witness: the same descriptor was closed a second time while another
\* descriptor, read from before, is registered
C28_Witness ==
    /\ last.op = "Fs::close"
    /\ last.ret = 0
    /\ last.args.fd \notin DOMAIN fd_map
    /\ \E g \in DOMAIN fd_map : fd_map[g].kind = "File" /\ fd_map[g].offset > 0

\* the descriptor a call of open, openat or opendir answered with
NewFd(c, ds) == IF c.op = "opendir" THEN ds[c.ret.d].fd ELSE c.ret

\* the call was answered by the store with a descriptor or a stream
OpenedInStore(c) ==
    /\ c.op \in {"open", "openat", "opendir"}
    /\ c.trace = <<>>
    /\ IF c.op = "opendir" THEN c.ret # NullPtr ELSE c.ret >= 0

\* C29: a descriptor registered by open, openat or opendir was not registered
\* before the call, the entries registered before are as they were, a file
\* starts at offset 0; a read moves the offset of its own descriptor only.
C29_FreshDescriptor ==
    [][/\ (~aborted' /\ OpenedInStore(last'))
          => LET fd == NewFd(last', dirs') IN
             /\ fd \notin DOMAIN fd_map
             /\ DOMAIN fd_map' = (DOMAIN fd_map) \cup {fd}
             /\ \A g \in DOMAIN fd_map : fd_map'[g] = fd_map[g]
             /\ fd_map'[fd].kind = "File" => fd_map'[fd].offset = 0
       /\ (~aborted' /\ last'.op = "Fs::read")
          => \A g \in (DOMAIN fd_map) \ {last'.args.fd} :
                g \in DOMAIN fd_map' /\ fd_map'[g] = fd_map[g]]_vars

\* C29 witness: the same path is open on two descriptors, one read from and
\* the other, opened after that read, at offset 0
C29_Witness ==
    /\ OpenedInStore(last)
    /\ last.op = "open"
    /\ \E g \in (DOMAIN fd_map) \ {last.ret} :
          /\ delivered[g].path = delivered[last.ret].path
          /\ fd_map[g].kind = "File"
          /\ fd_map[g].offset > 0
          /\ fd_map[last.ret].offset = 0

\* C30: Fs::fdopendir answers a descriptor registered as a directory with a
\* stream carrying that descriptor at cursor 0, and any other descriptor
\* with None; the registry and the open descriptors are as before.
C30_FdopendirDirectoryOnly ==
    [][last'.op = "Fs::fdopendir"
       => LET fd == last'.args.fd IN
          /\ ~aborted'
          /\ fd_map' = fd_map
          /\ os_fds' = os_fds
          /\ IF fd \in DOMAIN fd_map /\ fd_map[fd].kind = "Directory"
             THEN /\ IsSome(last'.ret)
                  /\ Unwrap(last'.ret) \notin DOMAIN dirs
                  /\ dirs'[Unwrap(last'.ret)].fd = fd
                  /\ dirs'[Unwrap(last'.ret)].offset = 0
                  /\ \A d \in DOMAIN dirs : dirs'[d] = dirs[d]
             ELSE last'.ret = None /\ dirs' = dirs]_vars

\* C30 witness: with a file and a directory registered, fdopendir of the
\* directory's descriptor returned a stream
C30_Witness ==
    /\ last.op = "Fs::fdopendir"
    /\ IsSome(last.ret)
    /\ dirs[Unwrap(last.ret)].fd = last.args.fd
    /\ \E g \in DOMAIN fd_map : fd_map[g].kind = "File"

\* C31: Fs::opendir answers a path that names a directory with a new stream
\* at cursor 0 on a descriptor that was neither registered nor open, now
\* registered as a Directory; a bundled file or an absent path with None, no
\* descriptor duplicated, registry and streams as before.
C31_OpendirDirectoryOnly ==
    [][last'.op = "Fs::opendir"
       => /\ ~aborted'
          /\ IF Kind(last'.args.path) = "dir"
             THEN /\ IsSome(last'.ret)
                  /\ LET d == Unwrap(last'.ret)
                         fd == dirs'[d].fd
                     IN  /\ d \notin DOMAIN dirs
                         /\ dirs'[d].offset = 0
                         /\ fd \notin DOMAIN fd_map
                         /\ fd \notin os_fds
                         /\ os_fds' = os_fds \cup {fd}
                         /\ DOMAIN fd_map' = (DOMAIN fd_map) \cup {fd}
                         /\ fd_map'[fd].kind = "Directory"
                         /\ \A g \in DOMAIN fd_map : fd_map'[g] = fd_map[g]
                         /\ \A e \in DOMAIN dirs : dirs'[e] = dirs[e]
             ELSE /\ last'.ret = None
                  /\ fd_map' = fd_map
                  /\ os_fds' = os_fds
                  /\ dirs' = dirs]_vars

\* C31 witness: opendir of the bundled file /t/a returned None while a
\* descriptor is registered
C31_Witness ==
    /\ last.op = "Fs::opendir"
    /\ Kind(last.args.path) = "file"
    /\ last.ret = None
    /\ fd_map # <<>>

\* the entry a stream's i-th readdir after opendir returns: the i-th of the
\* list its descriptor was registered with, the end sentinel after the last
NthEntry(fd, i) ==
    LET entries == fd_map[fd].entries IN
    IF i > Len(entries) THEN NullDirent
    ELSE create_dirent(get_inode_from_path(entries[i]),
                       IF Kind(entries[i]) = "file" THEN DT_REG ELSE DT_DIR,
                       entries[i])

\* C32: rewinddir sets the cursor of its stream to 0 and changes nothing
\* else; the i-th readdir after a rewinddir returns what the i-th readdir
\* after opendir returns, wherever the cursor was.
C32_RewindRestarts ==
    [][/\ (last'.op = "rewinddir" /\ last'.args.d \in LiveDirs)
          => (/\ ~aborted'
              /\ dirs'[last'.args.d].offset = 0
              /\ DOMAIN dirs' = DOMAIN dirs
              /\ \A e \in (DOMAIN dirs) \ {last'.args.d} : dirs'[e] = dirs[e]
              /\ dirs'[last'.args.d].fd = dirs[last'.args.d].fd
              /\ fd_map' = fd_map
              /\ os_fds' = os_fds
              /\ working_dir' = working_dir)
       /\ (last'.op = "readdir" /\ last'.args.d \in LiveDirs)
          => (/\ ~aborted'
              /\ last'.ret = NthEntry(last'.args.fd, Len(dirs[last'.args.d].seen) + 1))]_vars

\* C32 witness: a stream that had returned the end sentinel was rewound
C32_Witness ==
    /\ last.op = "rewinddir"
    /\ last.args.d \in LiveDirs
    /\ last.args.ended
    /\ last.args.offset > 0
    /\ dirs[last.args.d].offset = 0

\* the descriptors registered as directories
DirEntries == {fd \in DOMAIN fd_map : fd_map[fd].kind = "Directory"}

\* the child segment an entry of a directory listing names
ChildSegment(entry) == entry[Len(entry)]

Below(keys, path) == {k \in keys : IsPrefixVec(path, k) /\ Len(k) > Len(path)}

\* C34: a path classifies as File exactly when it is a key, keys below it or
\* not; as Directory exactly when it is no key and keys lie below it; as
\* absent otherwise; the entries of a Directory are not empty, and each is
\* the path with one more segment.
C34_Classify ==
    last.op = "get_file_type_from_path"
    => LET keys == last.args.keys
           path == last.args.path
           t == last.ret
       IN  /\ (IsSome(t) /\ Unwrap(t).kind = "File") <=> (path \in keys)
           /\ (IsSome(t) /\ Unwrap(t).kind = "Directory")
              <=> (path \notin keys /\ Below(keys, path) # {})
           /\ (t = None) <=> (path \notin keys /\ Below(keys, path) = {})
           /\ (IsSome(t) /\ Unwrap(t).kind = "Directory")
              => (/\ Unwrap(t).entries # <<>>
                  /\ \A i \in 1..Len(Unwrap(t).entries) :
                        /\ Len(Unwrap(t).entries[i]) = Len(path) + 1
                        /\ IsPrefixVec(path, Unwrap(t).entries[i]))

\* C34 witness: the path a is a key with the keys a/d and a/p below it, and
\* classifies as File
C34_Witness ==
    /\ last.op = "get_file_type_from_path"
    /\ last.args.path = <<SegA>>
    /\ last.args.path \in last.args.keys
    /\ Cardinality(Below(last.args.keys, last.args.path)) = 2
    /\ Unwrap(last.ret).kind = "File"

\* C35: the buffer of a file has type S_IFREG, permissions 0444 (292), the
\* content length as size, and as blocks the least multiple of 8 whose 512
\* byte sectors cover the size; the buffer of a directory has type S_IFDIR,
\* permissions 0555 (365), size 1 and no blocks; both have one link, no
\* device, block size 4096 and zero times.
C35_StatBuffer ==
    last.op = "get_stat_from_file_type"
    => LET b == last.data
           n == last.args.size
       IN  /\ IF last.args.kind = "File"
              THEN /\ b.st_mode - (b.st_mode % 4096) = S_IFREG
                   /\ b.st_mode % 4096 = 292
                   /\ b.st_size = n
                   /\ b.st_blocks % 8 = 0
                   /\ b.st_blocks * 512 >= n
                   /\ b.st_blocks >= 0
                   /\ b.st_blocks > 0 => (b.st_blocks - 8) * 512 < n
              ELSE /\ b.st_mode - (b.st_mode % 4096) = S_IFDIR
                   /\ b.st_mode % 4096 = 365
                   /\ b.st_size = 1
                   /\ b.st_blocks = 0
           /\ b.st_nlink = 1
           /\ b.st_rdev = 0
           /\ b.st_blksize = 4096
           /\ b.st_atime = 0 /\ b.st_mtime = 0 /\ b.st_ctime = 0

\* C35 witness: a file of 4097 bytes got 16 blocks
C35_Witness ==
    /\ last.op = "get_stat_from_file_type"
    /\ last.args.kind = "File"
    /\ last.args.size = 4097
    /\ last.data.st_blocks = 16

\* C36: Fs::fstat on a registered descriptor answers 0 with the buffer Fs::stat
\* gives for the path the descriptor was opened on, whatever has been read
\* from it; on any other descriptor it answers None; it leaves the registry,
\* the descriptors and the streams as they were.
C36_FstatIsStat ==
    [][last'.op = "Fs::fstat"
       => LET fd == last'.args.fd IN
          /\ ~aborted'
          /\ fd_map' = fd_map /\ os_fds' = os_fds /\ dirs' = dirs
          /\ IF fd \in DOMAIN fd_map
             THEN /\ last'.ret = Some(0)
                  /\ Some(last'.data) = Fs_stat(delivered[fd].path)
             ELSE /\ last'.ret = None
                  /\ last'.data = <<>>]_vars

\* C36 witness: fstat on a file descriptor that has been read to the end
C36_Witness ==
    /\ last.op = "Fs::fstat"
    /\ last.ret = Some(0)
    /\ last.args.fd \in DOMAIN fd_map
    /\ fd_map[last.args.fd].kind = "File"
    /\ fd_map[last.args.fd].offset = 3
    /\ last.data.st_size = 3

\* C37: openat(AT_FDCWD, p, flags) without a create flag ends as open(p, flags)
\* would in the same state: the same return value, errno and registry,
\* forwarded to the real function in the same cases; fstatat(AT_FDCWD, p, buf)
\* ends as stat(p, buf) would: the same return value, errno and buffer.
C37_AtFdcwdIsPlain ==
    [][/\ (/\ last'.op = "openat"
           /\ last'.args.dirfd = AT_FDCWD
           /\ ~is_create_flag(last'.args.oflag))
          => \E rr \in RealOpens :
                LET o == open_from_fs(St, last'.args.path, last'.args.oflag,
                                      last'.args.mode, rr)
                IN  /\ o.ret = last'.ret
                    /\ o.err = last'.err
                    /\ o.st.fd_map = fd_map'
                    /\ (o.trace = <<>>) <=> (last'.trace = <<>>)
       /\ (/\ last'.op = "fstatat"
           /\ last'.args.dirfd = AT_FDCWD)
          => \E rr \in RealInts :
                LET o == stat_from_fs(St, "stat", last'.args.path,
                                      last'.args.stat_null, rr)
                IN  /\ o.ret = last'.ret
                    /\ o.err = last'.err
                    /\ o.data = last'.data
                    /\ (o.trace = <<>>) <=> (last'.trace = <<>>)]_vars

\* what a call returns when it fails
Sentinel(op) == IF op = "opendir" THEN NullPtr ELSE -1

\* C38: open, stat, lstat, opendir and mkdir on a relative path: with the
\* working directory set no real function is called, a path that resolves
\* (canonicalize_path on the working directory and the path) to nothing in the
\* store gives the error value, a stat or lstat that resolves to something
\* gives the buffer of that key, an open without O_DIRECTORY registers the
\* entry of that key, an opendir on a directory gives a stream; with the
\* working directory unset the call is forwarded to the real function.
C38_RelativeFromStore ==
    [][(/\ last'.op \in {"open", "stat", "lstat", "opendir", "mkdir"}
        /\ ~Absolute(last'.args.path))
       => IF IsSome(working_dir)
          THEN LET c == last'
                   key == components(canonicalize_path(Unwrap(working_dir), c.args.path))
               IN  /\ ~aborted'
                   /\ \A i \in 1..Len(c.trace) : ~IsReal(c.trace[i])
                   /\ Kind(key) = "absent" => c.ret = Sentinel(c.op)
                   /\ (/\ Kind(key) # "absent"
                       /\ c.op \in {"stat", "lstat"}
                       /\ ~c.args.stat_null)
                      => (c.ret = 0 /\ Some(c.data) = Fs_stat(key))
                   /\ (/\ Kind(key) # "absent"
                       /\ c.op = "open"
                       /\ c.args.oflag = O_RDONLY)
                      => (/\ c.ret \in DOMAIN fd_map'
                          /\ c.ret \notin DOMAIN fd_map
                          /\ fd_map'[c.ret] = Unwrap(get_file_type_from_path(key)))
                   /\ (Kind(key) = "dir" /\ c.op = "opendir")
                      => (c.ret # NullPtr /\ DOMAIN dirs' # DOMAIN dirs)
          ELSE ForwardedOnce(last')]_vars

\* C39: a path call that overlaps a chdir does not abort, and ends as the
\* whole call would with the working directory it found at its routing test
\* or with the one it found at its end.
C39_OneWorkingDir ==
    [][(/\ last'.op \in StagedOps
        /\ last'.args.staged
        /\ \E t \in Threads : calls[t] # Idle /\ calls'[t] = Idle)
       => /\ ~aborted'
          /\ \E w \in {last'.args.wd_before, last'.args.wd_after},
                rr \in Oracle(last'.op) :
                LET o == Whole(last'.op, [St EXCEPT !.working_dir = w],
                               last'.args.path, rr)
                IN  /\ o.ret = last'.ret
                    /\ o.err = last'.err]_vars

\* the order in which locks are taken while another is held
LockRank(l) == CASE l = "wd" -> 1 [] l = "store" -> 2 [] l = "cache" -> 3 [] l = "ctx" -> 4

\* no thread is about to take a lock it holds, and every thread takes locks
\* in rising rank
LocksOrdered ==
    \A t \in Workers :
        (calls[t].op = "call" /\ Head(calls[t].rest).a = "acquire")
        => \A h \in Holds(t) : LockRank(h.l) < LockRank(Head(calls[t].rest).l)

\* C40: no thread takes a lock it still holds, locks are taken in one order
\* by all threads, and every call that was entered returns.
C40_EveryCallReturns ==
    /\ []LocksOrdered
    /\ \A t \in Workers : (calls[t].op = "call") ~> (calls[t].op = "returned")

\* C40 witness: thread 1 holds the working directory and waits for the store,
\* which thread 2 holds while it takes the stat cache
C40_Witness ==
    /\ Holds(1) = {[l |-> "wd", m |-> "r"]}
    /\ Wants(1, "store", "w")
    /\ [l |-> "store", m |-> "w"] \in Holds(2)
    /\ Wants(2, "cache", "w")

====
